---- MODULE Spec2Model ----
(***************************************************************************)
(* Verification model of the chess AI personalities (Prophet, Gambler,     *)
(* Tactician) and of the main loop that drives them.                       *)
(*                                                                         *)
(* The engine module (GameState, Move) is not part of the sources; it is   *)
(* modelled as a small abstract game: a white knight (c3/e4/f6), a white   *)
(* rook (a1/a7) carrying the white queenside castling right, a black       *)
(* knight (g8/f6/e4) and a black king (e8/e7/f6).  Quiet moves form        *)
(* cycles of four plies, captures are irreversible.                        *)
(*                                                                         *)
(* Scores are fixed-point numbers: 1.0 is Unit.                            *)
(***************************************************************************)
EXTENDS Integers, Sequences, FiniteSets, TLC

Unit == 40

CHECKMATE == 1000 * Unit

STALEMATE == 0

\* ------------------------------------------------------------------------
\* Generic helpers (Python dict / list idioms)
\* ------------------------------------------------------------------------

Max(a, b) == IF a >= b THEN a ELSE b

Min(a, b) == IF a <= b THEN a ELSE b

Abs(a) == IF a >= 0 THEN a ELSE -a

EmptyDict == <<>>

\* d.get(k, dflt)
Get(d, k, dflt) == IF k \in DOMAIN d THEN d[k] ELSE dflt

\* d[k] = v
Put(d, k, v) == [x \in (DOMAIN d) \cup {k} |-> IF x = k THEN v ELSE d[x]]

\* the Python value None, where a move is expected
None == [piece |-> "None", from |-> "--", end |-> "--", cap |-> "--"]

RECURSIVE SetMax(_)
SetMax(S) ==
    LET x == CHOOSE y \in S : TRUE
    IN  IF S = {x} THEN x ELSE Max(x, SetMax(S \ {x}))

\* sorted(seq, key=Key, reverse=True): stable, descending by key
RECURSIVE SortedDesc(_, _)
SortedDesc(seq, keys) ==
    IF Len(seq) = 0 THEN <<>>
    ELSE LET top  == SetMax({keys[i] : i \in 1..Len(seq)})
             idx  == {i \in 1..Len(seq) : keys[i] = top}
             IsTop(i) == keys[i] = top
             NotTop(i) == keys[i] # top
             ixs  == [i \in 1..Len(seq) |-> i]
             hi   == SelectSeq(ixs, IsTop)
             lo   == SelectSeq(ixs, NotTop)
         IN  [i \in 1..Len(hi) |-> seq[hi[i]]]
             \o SortedDesc([i \in 1..Len(lo) |-> seq[lo[i]]],
                           [i \in 1..Len(lo) |-> keys[lo[i]]])

\* ------------------------------------------------------------------------
\* The engine: GameState and Move (abstract game)
\* ------------------------------------------------------------------------

Mv(piece, from, end, cap) ==
    [piece |-> piece, from |-> from, end |-> end, cap |-> cap]

\* the position the abstract game starts from
StartPos ==
    [wn |-> "c3", bn |-> "g8", wr |-> "a1", bk |-> "e7",
     wq |-> TRUE, wtm |-> TRUE]

\* gs.inCheck for the side to move (only the black king is on the board)
InCheck(p) ==
    /\ ~p.wtm
    /\ \/ p.wn = "f6" /\ p.bk = "e8"
       \/ p.wr = "a7" /\ p.bk = "e7"

WhiteKnightMoves(p) ==
    IF p.wn = "c3"
    THEN <<Mv("wN", "c3", "e4", IF p.bn = "e4" THEN "bN" ELSE "--")>>
    ELSE IF p.wn = "e4"
    THEN <<Mv("wN", "e4", "c3", "--")>>
         \o (IF p.bn = "f6" THEN <<Mv("wN", "e4", "f6", "bN")>> ELSE <<>>)
    ELSE IF p.wn = "f6"
    THEN <<Mv("wN", "f6", "e4", "--")>>
    ELSE <<>>

WhiteRookMoves(p) ==
    <<Mv("wR", p.wr, IF p.wr = "a1" THEN "a7" ELSE "a1", "--")>>

BlackKnightMoves(p) ==
    IF InCheck(p) THEN <<>>
    ELSE IF p.bn = "g8"
    THEN (IF p.bk # "f6"
          THEN <<Mv("bN", "g8", "f6", IF p.wn = "f6" THEN "wN" ELSE "--")>>
          ELSE <<>>)
    ELSE IF p.bn = "f6"
    THEN <<Mv("bN", "f6", "g8", "--")>>
         \o (IF p.wn = "e4" THEN <<Mv("bN", "f6", "e4", "wN")>> ELSE <<>>)
    ELSE IF p.bn = "e4"
    THEN (IF p.bk # "f6" THEN <<Mv("bN", "e4", "f6", "--")>> ELSE <<>>)
    ELSE <<>>

BlackKingMoves(p) ==
    IF p.bk = "e8"
    THEN (IF p.wr # "a7" THEN <<Mv("bK", "e8", "e7", "--")>> ELSE <<>>)
    ELSE IF p.bk = "e7"
    THEN (IF p.wn = "f6" THEN <<Mv("bK", "e7", "f6", "wN")>>
                         ELSE <<Mv("bK", "e7", "e8", "--")>>)
    ELSE (IF p.wr # "a7" THEN <<Mv("bK", "f6", "e7", "--")>> ELSE <<>>)

\* the list gs.getValidMoves() returns
ValidMoves(p) ==
    IF p.wtm THEN WhiteKnightMoves(p) \o WhiteRookMoves(p)
             ELSE BlackKnightMoves(p) \o BlackKingMoves(p)

\* the position after a move
ApplyMove(p, m) ==
    LET q == IF m.piece = "wN"
             THEN [p EXCEPT !.wn = m.end,
                            !.bn = IF m.cap # "--" THEN "x" ELSE @]
             ELSE IF m.piece = "wR"
             THEN [p EXCEPT !.wr = m.end, !.wq = FALSE]
             ELSE IF m.piece = "bN"
             THEN [p EXCEPT !.bn = m.end,
                            !.wn = IF m.cap # "--" THEN "x" ELSE @]
             ELSE [p EXCEPT !.bk = m.end,
                            !.wn = IF m.cap # "--" THEN "x" ELSE @]
    IN  [q EXCEPT !.wtm = ~p.wtm]

\* a GameState: the position, the positions to return to on undo, and the
\* flags that getValidMoves leaves behind
NewGameState(p) ==
    [pos |-> p, log |-> <<>>, checkmate |-> FALSE, stalemate |-> FALSE,
     inCheck |-> FALSE]

\* gs.getValidMoves(): returns ValidMoves(gs.pos) and sets the flags
AfterGetValidMoves(gs) ==
    LET none == Len(ValidMoves(gs.pos)) = 0
    IN  [gs EXCEPT !.inCheck   = InCheck(gs.pos),
                   !.checkmate = none /\ InCheck(gs.pos),
                   !.stalemate = none /\ ~InCheck(gs.pos)]

\* gs.makeMove(move)
MakeMove(gs, m) ==
    [gs EXCEPT !.pos = ApplyMove(gs.pos, m), !.log = Append(@, gs.pos)]

\* gs.undoMove()
UndoMove(gs) ==
    IF Len(gs.log) = 0 THEN gs
    ELSE [gs EXCEPT !.pos = gs.log[Len(gs.log)],
                    !.log = SubSeq(@, 1, Len(gs.log) - 1),
                    !.checkmate = FALSE, !.stalemate = FALSE]

\* str(gs.board): the piece placement only
Board(p) == [wn |-> p.wn, bn |-> p.bn, wr |-> p.wr, bk |-> p.bk]

\* _board_key(gs): board, side to move, castling rights, en-passant target
\* (only the white queenside right varies in the abstract game)
BoardKey(p) == <<Board(p), p.wtm, p.wq>>

\* ------------------------------------------------------------------------
\* Evaluation inputs: the piece sums scoreBoard computes are an input of the
\* model, one table per profile (material and piece-square value of each
\* piece on each square it can stand on, in Units)
\* ------------------------------------------------------------------------

EvalProfiles ==
    << [wn |-> [c3 |-> 120, e4 |-> 130, f6 |-> 140, x |-> 0],
        bn |-> [g8 |-> 120, f6 |-> 130, e4 |-> 140, x |-> 0],
        wr |-> [a1 |-> 200, a7 |-> 210],
        bk |-> [e8 |-> 0, e7 |-> 0, f6 |-> 0]],
       [wn |-> [c3 |-> 150, e4 |-> 130, f6 |-> 160, x |-> 0],
        bn |-> [g8 |-> 110, f6 |-> 100, e4 |-> 130, x |-> 0],
        wr |-> [a1 |-> 200, a7 |-> 210],
        bk |-> [e8 |-> 10, e7 |-> 0, f6 |-> 10]],
       [wn |-> [c3 |-> 120, e4 |-> 120, f6 |-> 120, x |-> 0],
        bn |-> [g8 |-> 120, f6 |-> 120, e4 |-> 120, x |-> 0],
        wr |-> [a1 |-> 200, a7 |-> 240],
        bk |-> [e8 |-> 0, e7 |-> 0, f6 |-> 0]] >>

\* the sum over the occupied squares in scoreBoard (white minus black)
BoardScore(ev, b) ==
    LET t == EvalProfiles[ev]
    IN  t.wn[b.wn] + t.wr[b.wr] - t.bn[b.bn] - t.bk[b.bk]

\* ------------------------------------------------------------------------
\* The state a search runs on: the module globals of the personality, the
\* GameState it was given, and the dict passed down the recursion
\* ------------------------------------------------------------------------

NoKillers(maxDepth) == [d \in 0..maxDepth |-> <<None, None>>]

\* module state right after import
ModuleState(ev, killers) ==
    [ev |-> ev,
     gameHistory |-> EmptyDict, transTable |-> EmptyDict,
     killerMoves |-> killers, historyTable |-> EmptyDict,
     nextMove |-> None]

\* number of occurrences of x in a sequence
Count(seq, x) == Cardinality({i \in 1..Len(seq) : seq[i] = x})

\* the positions of the current search line below the root of the search
SearchLine(st) ==
    SubSeq(st.gs.log, st.rootLen + (IF st.rootCounted THEN 2 ELSE 1),
           Len(st.gs.log))

\* which occurrence of its key a node is: the occurrences on the real board
\* (gameHistory) plus those on the search line, plus the node itself unless
\* it is the root that findBestMove has already recorded in gameHistory
Occurrence(st) ==
    Get(st.gameHistory, BoardKey(st.gs.pos), 0)
        + Count([i \in 1..Len(SearchLine(st)) |->
                    BoardKey(SearchLine(st)[i])], BoardKey(st.gs.pos))
        + (IF st.rootCounted /\ Len(st.gs.log) = st.rootLen THEN 0 ELSE 1)

\* ghost record of one use of a table entry: the entry's bound kind, whether
\* the node that stored it ended in a cutoff, whether its score was returned
\* as the node's value, the stored and the requested depth, the score, and
\* (hasRef) the value ref of the same call on an empty table
TTUse(flag, cut, asExact, stored, depth, score, hasRef, ref) ==
    [flag |-> flag, cut |-> cut, asExact |-> asExact, stored |-> stored,
     depth |-> depth, score |-> score, hasRef |-> hasRef, ref |-> ref]

\* gameHistory[key] + search_history[key] of the node st stands on
TotalCount(st) ==
    Get(st.gameHistory, BoardKey(st.gs.pos), 0)
        + Get(st.search_history, BoardKey(st.gs.pos), 0)

\* ghost record, taken by the caller, of a negamax call entered in state
\* before with TotalCount >= 2: what it returned, whether it was cancelled,
\* whether it left the position, the move count, the search-path counters
\* and the three tables as they were, whether the table held a usable entry
\* for the node (cached) and whether the node was a depth-0 node
Observe(before, after, score, aborted, cached, depth) ==
    IF TotalCount(before) < 2 THEN after
    ELSE [after EXCEPT !.hitLog = @ \cup
            {[score |-> score, aborted |-> aborted,
              quiet |-> /\ after.gs = before.gs
                        /\ after.made = before.made
                        /\ after.search_history = before.search_history
                        /\ after.transTable = before.transTable
                        /\ after.killerMoves = before.killerMoves
                        /\ after.historyTable = before.historyTable,
              cached |-> cached, leaf |-> depth = 0]}]

\* the two search-path histories hold the same count for every key
SameCounts(a, b) ==
    \A k \in DOMAIN a \cup DOMAIN b : Get(a, k, 0) = Get(b, k, 0)

\* ghost record, taken by the caller, of a negamax call that returned
\* normally: whether the search-path history counts are those of the entry
\* and whether the call's move loop ended by a cutoff
Returned(before, after, aborted, cut) ==
    IF aborted THEN after
    ELSE [after EXCEPT !.pathLog = @ \cup
            {[same |-> SameCounts(before.search_history,
                                  after.search_history),
              cut |-> cut]}]

\* ghost: the result r of a negamax call entered in state before, with the
\* records Observe and Returned take of the call
Observed(before, cached, depth, r) ==
    [r EXCEPT !.st = Returned(before,
                         Observe(before, r.st, r.score,
                                 "aborted" \in DOMAIN r /\ r.aborted, cached,
                                 depth),
                         "aborted" \in DOMAIN r /\ r.aborted,
                         "cut" \in DOMAIN r /\ r.cut)]

\* gs.makeMove(move) followed by gs.getValidMoves()
Made(st, move) ==
    [st EXCEPT !.gs = AfterGetValidMoves(MakeMove(@, move)), !.made = @ + 1]

\* ------------------------------------------------------------------------
\* Gambler (ai_gambler.py)
\* ------------------------------------------------------------------------

G_DEPTH == 4

G_scoreBoard(st) ==
    IF st.gs.checkmate THEN (IF st.gs.pos.wtm THEN -CHECKMATE ELSE CHECKMATE)
    ELSE IF st.gs.stalemate THEN STALEMATE
    ELSE BoardScore(st.ev, Board(st.gs.pos))

G_movePriority(killerMoves, depth, m) ==
    IF m.cap # "--" THEN 3
    ELSE IF killerMoves[depth][1] = m THEN 2
    ELSE IF killerMoves[depth][2] = m THEN 1
    ELSE 0

G_orderMoves(killerMoves, moves, depth) ==
    SortedDesc(moves,
               [i \in 1..Len(moves) |-> G_movePriority(killerMoves, depth, moves[i])])

\* boardKey = str(gs.board) + str(gs.whiteToMove)
G_boardKey(p) == [board |-> Board(p), wtm |-> p.wtm]

\* a rule that would wait for the count to reach 3
RepetitionHit_third(total_count) == total_count >= 3

\* if total_count >= 2
RepetitionHit(total_count) == total_count >= 2

\* a killer update that would shift the slots without looking at slot 0
KillerUpdate_always(killerMoves, depth, move) ==
    IF move.cap = "--"
    THEN [killerMoves EXCEPT ![depth] = <<move, killerMoves[depth][1]>>]
    ELSE killerMoves

\* killer update on a cutoff by a non-capturing move
KillerUpdate(killerMoves, depth, move) ==
    IF move.cap = "--" /\ killerMoves[depth][1] # move
    THEN [killerMoves EXCEPT ![depth] = <<move, killerMoves[depth][1]>>]
    ELSE killerMoves

\* the state after the killer update of a cutoff by move at depth; ghost:
\* the move and the slots of the depth before and after
Killed(st, depth, move) ==
    [st EXCEPT !.killerMoves = KillerUpdate(@, depth, move),
               !.killLog = @ \cup
                   {[move |-> move, before |-> st.killerMoves[depth],
                     after |-> KillerUpdate(st.killerMoves, depth,
                                            move)[depth]]}]

\* ghost record of a read or an overwrite of the table entry under key by
\* a node whose full position key is full: whether the entry was stored
\* for the same full position key
KeyUse(op, transTable, key, full) ==
    IF key \in DOMAIN transTable
    THEN {[op |-> op, same |-> transTable[key].full = full]}
    ELSE {}

\* if storedDepth >= depth
G_TTUsable(storedDepth, depth) == storedDepth >= depth

\* the table holds an entry usable for the node at this depth
G_Cached(st, depth) ==
    G_boardKey(st.gs.pos) \in DOMAIN st.transTable
        /\ G_TTUsable(st.transTable[G_boardKey(st.gs.pos)].depth, depth)

RECURSIVE G_findMoveNegaMaxAlphaBeta(_, _, _, _, _, _)
RECURSIVE G_loop(_, _, _, _, _, _, _, _)

\* the body of the for loop from the return r of the recursive call on
G_loopNext(moves, i, depth, alpha, beta, turnMultiplier, maxScore, r) ==
    LET move  == moves[i]
        score == -r.score
        max1  == IF score > maxScore THEN score ELSE maxScore
        st1   == [r.st EXCEPT
                     !.gs = UndoMove(@),
                     !.nextMove = IF score > maxScore /\ depth = G_DEPTH
                                  THEN move ELSE @]
        alpha1 == Max(alpha, max1)
    IN  IF alpha1 >= beta
        THEN [st |-> Killed(st1, depth, move),
              maxScore |-> max1, cut |-> TRUE]
        ELSE G_loop(st1, moves, i + 1, depth, alpha1, beta, turnMultiplier,
                    max1)

\* the for loop over the ordered moves; returns the state, maxScore and
\* whether the loop ended by the break
G_loop(st, moves, i, depth, alpha, beta, turnMultiplier, maxScore) ==
    IF i > Len(moves)
    THEN [st |-> st, maxScore |-> maxScore, cut |-> FALSE]
    ELSE G_loopNext(moves, i, depth, alpha, beta, turnMultiplier, maxScore,
             G_findMoveNegaMaxAlphaBeta(
                 Made(st, moves[i]), ValidMoves(ApplyMove(st.gs.pos, moves[i])),
                 depth - 1, -beta, -alpha, -turnMultiplier))

\* the end of a node, from the return l of the loop on: the search-path
\* counter is unwound and the entry stored
G_leave(rep_key, boardKey, depth, l) ==
    [st |-> [l.st EXCEPT
                !.search_history = Put(@, rep_key, @[rep_key] - 1),
                !.transTable = Put(@, boardKey,
                    [depth |-> depth, score |-> l.maxScore, cut |-> l.cut,
                     full |-> rep_key]),
                !.keyLog = @ \cup
                    KeyUse("write", l.st.transTable, boardKey, rep_key)],
     score |-> l.maxScore, cut |-> l.cut]

G_findMoveNegaMaxAlphaBeta(st, validMoves, depth, alpha, beta, turnMultiplier) ==
    Observed(st, G_Cached(st, depth), depth,
      LET boardKey    == G_boardKey(st.gs.pos)
          rep_key     == BoardKey(st.gs.pos)
          total_count == Get(st.gameHistory, rep_key, 0)
                           + Get(st.search_history, rep_key, 0)
          stR == [st EXCEPT !.repLog = @ \cup
                     {[nth |-> Occurrence(st),
                       zero |-> RepetitionHit(total_count)]}]
      IN
      IF RepetitionHit(total_count) THEN [st |-> stR, score |-> 0]
      ELSE IF G_Cached(st, depth)
      THEN [st |-> [stR EXCEPT !.ttLog = @ \cup
                        {TTUse("none", st.transTable[boardKey].cut, TRUE,
                               st.transTable[boardKey].depth, depth,
                               st.transTable[boardKey].score, FALSE, 0)},
                               !.keyLog = @ \cup
                        KeyUse("read", st.transTable, boardKey, rep_key)],
            score |-> st.transTable[boardKey].score]
      ELSE IF depth = 0
      THEN [st |-> stR, score |-> turnMultiplier * G_scoreBoard(stR)]
      ELSE G_leave(rep_key, boardKey, depth,
               G_loop([stR EXCEPT !.search_history =
                          Put(@, rep_key, Get(@, rep_key, 0) + 1)],
                      G_orderMoves(st.killerMoves, validMoves, depth),
                      1, depth, alpha, beta, turnMultiplier, -CHECKMATE)))

\* the state findBestMove starts the search from
SearchState(mod, gs) ==
    [ev |-> mod.ev, gameHistory |-> mod.gameHistory,
     transTable |-> mod.transTable, killerMoves |-> mod.killerMoves,
     historyTable |-> mod.historyTable, nextMove |-> None,
     gs |-> gs, rootLen |-> Len(gs.log), search_history |-> EmptyDict,
     ticks |-> 0, hardAt |-> 0, softAt |-> 0,
     rootCounted |-> TRUE, ref |-> FALSE,
     made |-> 0, repLog |-> {}, hitLog |-> {}, ttLog |-> {},
     depthLog |-> <<>>, qLog |-> {}, storeLog |-> {}, pathLog |-> {},
     keyLog |-> {}, killLog |-> {}, qSteps |-> {}, qCalls |-> {},
     histStart |-> EmptyDict]

\* the candidate list of the stochastic root policy: nextMove, then the
\* first moves of the shuffled list that differ from it, up to three
RECURSIVE G_topMoves(_, _, _)
G_topMoves(topMoves, shuffled, i) ==
    IF i > Len(shuffled) \/ Len(topMoves) >= 3 THEN topMoves
    ELSE G_topMoves(
             IF \A j \in 1..Len(topMoves) : topMoves[j] # shuffled[i]
             THEN Append(topMoves, shuffled[i]) ELSE topMoves,
             shuffled, i + 1)

\* weights that would not favour the best move
G_weights_even(move_count) ==
    IF move_count = 1 THEN <<100>>
    ELSE IF move_count = 2 THEN <<50, 50>>
    ELSE <<40, 40, 20>>

G_weights(move_count) ==
    IF move_count = 1 THEN <<100>>
    ELSE IF move_count = 2 THEN <<75, 25>>
    ELSE <<65, 25, 10>>

\* findBestMove from the return r of the root search on
G_searched(r) == [st |-> r.st, searched |-> TRUE, score |-> r.score]

\* the state of findBestMove before the search: nextMove reset and the
\* position recorded in gameHistory
Recorded(mod, gs) ==
    SearchState(
        [mod EXCEPT !.nextMove = None,
                    !.gameHistory = Put(@, BoardKey(gs.pos),
                                        Get(@, BoardKey(gs.pos), 0) + 1)],
        gs)

\* findBestMove up to the end of the search: the position is recorded,
\* the table cleared, the root searched
G_search(mod, gs, validMoves) ==
    IF Len(validMoves) = 0
    THEN [st |-> Recorded(mod, gs), searched |-> FALSE, score |-> 0]
    ELSE G_searched(
             G_findMoveNegaMaxAlphaBeta(
                 [Recorded(mod, gs) EXCEPT !.transTable = EmptyDict],
                 validMoves, G_DEPTH, -CHECKMATE, CHECKMATE,
                 IF gs.pos.wtm THEN 1 ELSE -1))

\* findBestMove from the end of the search on: the choice among the
\* candidates.  shuffled is the outcome of random.shuffle(validMoves), pick
\* the index random.choices / random.choice draws, hasQueue whether a
\* result channel was passed
G_finish(sr, validMoves, hasQueue, shuffled, pick) ==
    IF ~sr.searched
    THEN [st |-> sr.st, raised |-> FALSE, ret |-> None,
          queue |-> IF hasQueue THEN <<None>> ELSE <<>>,
          score |-> 0, fallback |-> FALSE, topMoves |-> <<>>,
          weights |-> <<>>]
    ELSE IF sr.st.nextMove = None
    THEN LET finalMove == validMoves[((pick - 1) % Len(validMoves)) + 1]
         IN  [st |-> sr.st, raised |-> FALSE, ret |-> finalMove,
              queue |-> IF hasQueue THEN <<finalMove>> ELSE <<>>,
              score |-> sr.score, fallback |-> TRUE, topMoves |-> <<>>,
              weights |-> <<>>]
    ELSE LET topMoves == G_topMoves(<<sr.st.nextMove>>, shuffled, 1)
             chosen   == topMoves[((pick - 1) % Len(topMoves)) + 1]
         IN  [st |-> sr.st, raised |-> FALSE, ret |-> chosen,
              queue |-> IF hasQueue THEN <<chosen>> ELSE <<>>,
              score |-> sr.score, fallback |-> FALSE,
              topMoves |-> topMoves, weights |-> G_weights(Len(topMoves))]

\* findBestMove(gs, validMoves, returnQueue)
G_findBestMove(mod, gs, validMoves, hasQueue, shuffled, pick) ==
    G_finish(G_search(mod, gs, validMoves), validMoves, hasQueue, shuffled,
             pick)

\* notify_undo(gs)
notify_undo(gameHistory, gs) ==
    IF Get(gameHistory, BoardKey(gs.pos), 0) > 0
    THEN Put(gameHistory, BoardKey(gs.pos), gameHistory[BoardKey(gs.pos)] - 1)
    ELSE gameHistory

\* ------------------------------------------------------------------------
\* Tactician (ai_tactician.py)
\* ------------------------------------------------------------------------

T_DEPTH == 3

\* BASE_PIECE_SCORE
PieceScore(kind) ==
    IF kind = "Q" THEN 9 ELSE IF kind = "R" THEN 5
    ELSE IF kind = "B" THEN 3 ELSE IF kind = "N" THEN 3
    ELSE IF kind = "p" THEN 1 ELSE 0

\* the second character of a piece code
Kind(piece) ==
    IF piece \in {"wN", "bN"} THEN "N" ELSE IF piece \in {"wR", "bR"} THEN "R"
    ELSE IF piece \in {"wK", "bK"} THEN "K" ELSE "-"

is_giving_check(gs) == gs.inCheck

T_scoreBoard(st) ==
    IF st.gs.checkmate THEN (IF st.gs.pos.wtm THEN -CHECKMATE ELSE CHECKMATE)
    ELSE IF st.gs.stalemate THEN STALEMATE
    ELSE LET check_bonus == IF is_giving_check(st.gs) THEN Unit \div 2 ELSE 0
             score == BoardScore(st.ev, Board(st.gs.pos))
         IN  IF ~st.gs.pos.wtm THEN score - check_bonus
                               ELSE score + check_bonus

RECURSIVE T_findMoveNegaMaxAlphaBeta(_, _, _, _, _, _)
RECURSIVE T_loop(_, _, _, _, _, _, _, _)

\* the body of the for loop from the return r of the recursive call on
T_loopNext(moves, i, depth, alpha, beta, turnMultiplier, maxScore, r) ==
    LET score == -r.score
        max1  == IF score > maxScore THEN score ELSE maxScore
        st1   == [r.st EXCEPT
                     !.nextMove = IF score > maxScore /\ depth = T_DEPTH
                                  THEN moves[i] ELSE @,
                     !.gs = UndoMove(@)]
        alpha1 == IF max1 > alpha THEN max1 ELSE alpha
    IN  IF alpha1 >= beta
        THEN [st |-> st1, maxScore |-> max1, cut |-> TRUE]
        ELSE T_loop(st1, moves, i + 1, depth, alpha1, beta, turnMultiplier,
                    max1)

T_loop(st, moves, i, depth, alpha, beta, turnMultiplier, maxScore) ==
    IF i > Len(moves)
    THEN [st |-> st, maxScore |-> maxScore, cut |-> FALSE]
    ELSE T_loopNext(moves, i, depth, alpha, beta, turnMultiplier, maxScore,
             T_findMoveNegaMaxAlphaBeta(
                 Made(st, moves[i]), ValidMoves(ApplyMove(st.gs.pos, moves[i])),
                 depth - 1, -beta, -alpha, -turnMultiplier))

\* a node end that would leave the node marked on the search path
T_leave_marked(rep_key, l) ==
    [st |-> l.st, score |-> l.maxScore, cut |-> l.cut]

\* the end of a node, from the return l of the loop on
T_leave(rep_key, l) ==
    [st |-> [l.st EXCEPT !.search_history = Put(@, rep_key, @[rep_key] - 1)],
     score |-> l.maxScore, cut |-> l.cut]

T_findMoveNegaMaxAlphaBeta(st, validMoves, depth, alpha, beta, turnMultiplier) ==
    Observed(st, FALSE, depth,
      LET rep_key     == BoardKey(st.gs.pos)
          total_count == Get(st.gameHistory, rep_key, 0)
                           + Get(st.search_history, rep_key, 0)
          stR == [st EXCEPT !.repLog = @ \cup
                     {[nth |-> Occurrence(st),
                       zero |-> RepetitionHit(total_count)]}]
      IN
      IF RepetitionHit(total_count) THEN [st |-> stR, score |-> 0]
      ELSE IF depth = 0
      THEN [st |-> stR, score |-> turnMultiplier * T_scoreBoard(stR)]
      ELSE T_leave(rep_key,
               T_loop([stR EXCEPT !.search_history =
                          Put(@, rep_key, Get(@, rep_key, 0) + 1)],
                      validMoves, 1, depth, alpha, beta, turnMultiplier,
                      -CHECKMATE)))

RECURSIVE T_rootLoop(_, _, _, _)

\* the body of the loop of findBestMove from the score of the move on; rep
\* is whether the move was penalised instead of searched (then r is the
\* state after the move, with score 0)
T_rootNext(moves, i, move_scores, rep, r) ==
    LET bonus == IF moves[i].cap # "--"
                 THEN (PieceScore(Kind(moves[i].cap)) * Unit) \div 2 ELSE 0
        score == IF rep THEN -1000 * Unit ELSE -r.score + bonus
    IN  T_rootLoop([r.st EXCEPT !.gs = UndoMove(@)], moves, i + 1,
                   Append(move_scores, [move |-> moves[i], score |-> score]))

\* the loop of findBestMove over the (shuffled) root moves: the list of
\* (move, score) pairs
T_rootLoop(st, moves, i, move_scores) ==
    IF i > Len(moves) THEN [st |-> st, move_scores |-> move_scores]
    ELSE IF Get(st.gameHistory,
                BoardKey(ApplyMove(st.gs.pos, moves[i])), 0) >= 2
    THEN T_rootNext(moves, i, move_scores, TRUE,
                    [st |-> Made(st, moves[i]), score |-> 0])
    ELSE T_rootNext(moves, i, move_scores, FALSE,
             T_findMoveNegaMaxAlphaBeta(
                 [Made(st, moves[i]) EXCEPT !.search_history = EmptyDict],
                 ValidMoves(ApplyMove(st.gs.pos, moves[i])), T_DEPTH - 1,
                 -CHECKMATE, CHECKMATE, IF st.gs.pos.wtm THEN -1 ELSE 1))

\* move_scores.sort(key=lambda x: x[1], reverse=True)
T_sorted(l) ==
    [st |-> l.st,
     sorted |-> SortedDesc(l.move_scores,
                 [i \in 1..Len(l.move_scores) |-> l.move_scores[i].score])]

\* findBestMove up to the sort: the position is recorded and every root
\* move of the shuffled list scored
T_search(mod, gs, shuffled) ==
    T_sorted(T_rootLoop(Recorded(mod, gs), shuffled, 1, <<>>))

\* findBestMove from move_scores[0] on, which raises IndexError on an
\* empty list
T_finish(sr, hasQueue) ==
    IF Len(sr.sorted) = 0
    THEN [st |-> sr.st, raised |-> TRUE, ret |-> None, queue |-> <<>>,
          score |-> 0, fallback |-> FALSE]
    ELSE [st |-> [sr.st EXCEPT !.nextMove = sr.sorted[1].move],
          raised |-> FALSE,
          ret |-> IF hasQueue THEN None ELSE sr.sorted[1].move,
          queue |-> IF hasQueue THEN <<sr.sorted[1].move>> ELSE <<>>,
          score |-> sr.sorted[1].score, fallback |-> FALSE]

\* findBestMove(gs, validMoves, returnQueue); shuffled is the outcome of
\* random.shuffle(validMoves)
T_findBestMove(mod, gs, validMoves, hasQueue, shuffled) ==
    T_finish(T_search(mod, gs, shuffled), hasQueue)

\* ------------------------------------------------------------------------
\* Prophet (ai_prophet.py)
\* ------------------------------------------------------------------------

P_DEPTH == 5

ASPIRATION_DELTA_INITIAL == (3 * Unit) \div 2

ASPIRATION_DELTA_TIGHT == (3 * Unit) \div 4

CHECKMATE_THRESHOLD == (CHECKMATE * 9) \div 10

\* an evaluation that would look at the stalemate flag first
P_scoreBoard_stalemateFirst(st) ==
    IF st.gs.stalemate THEN STALEMATE
    ELSE IF st.gs.checkmate
    THEN (IF st.gs.pos.wtm THEN -CHECKMATE ELSE CHECKMATE)
    ELSE BoardScore(st.ev, Board(st.gs.pos))

P_scoreBoard(st) ==
    IF st.gs.checkmate THEN (IF st.gs.pos.wtm THEN -CHECKMATE ELSE CHECKMATE)
    ELSE IF st.gs.stalemate THEN STALEMATE
    ELSE BoardScore(st.ev, Board(st.gs.pos))

\* (endRow, endCol) in CENTER, by square name
CENTER == {"d5", "e5", "d4", "e4"}

mvv_lva(move) ==
    PieceScore(Kind(move.cap)) * 10
      - (IF Kind(move.piece) = "-" THEN 1 ELSE PieceScore(Kind(move.piece)))

\* key of the history table: (pieceMoved, endRow, endCol)
HKey(move) == [piece |-> move.piece, end |-> move.end]

\* time.time() > deadline, at the st.ticks-th reading of the clock; the
\* reference run of a call (st.ref) is the run the deadline does not cut
TimeUp(st) == ~st.ref /\ st.ticks >= st.hardAt

\* the bucket order_moves puts a move in: 0 the best move of the previous
\* depth, 1 winning captures, 2 equal captures, 3 killers, 4 history moves,
\* 5 centre moves, 6 other quiet moves, 7 losing captures
P_bucket(st, depth, best_move, m) ==
    IF best_move # None /\ m = best_move THEN 0
    ELSE IF m.cap # "--"
    THEN (IF mvv_lva(m) > 0 THEN 1 ELSE IF mvv_lva(m) = 0 THEN 2 ELSE 7)
    ELSE IF m = st.killerMoves[depth][1] \/ m = st.killerMoves[depth][2] THEN 3
    ELSE IF HKey(m) \in DOMAIN st.historyTable THEN 4
    ELSE IF m.end \in CENTER THEN 5
    ELSE 6

\* the moves of one bucket, in the order of the list
P_inBucket(st, moves, depth, best_move, b) ==
    LET In(m) == P_bucket(st, depth, best_move, m) = b
    IN  SelectSeq(moves, In)

P_order_moves(st, moves, depth, best_move) ==
    P_inBucket(st, moves, depth, best_move, 0)
    \o SortedDesc(P_inBucket(st, moves, depth, best_move, 1),
           [i \in 1..Len(P_inBucket(st, moves, depth, best_move, 1)) |->
               mvv_lva(P_inBucket(st, moves, depth, best_move, 1)[i])])
    \o P_inBucket(st, moves, depth, best_move, 2)
    \o P_inBucket(st, moves, depth, best_move, 3)
    \o P_inBucket(st, moves, depth, best_move, 4)
    \o P_inBucket(st, moves, depth, best_move, 5)
    \o P_inBucket(st, moves, depth, best_move, 6)
    \o P_inBucket(st, moves, depth, best_move, 7)

RECURSIVE P_quiescence(_, _, _, _)
RECURSIVE P_qloop(_, _, _, _, _, _)

\* number of pieces on the board
Pieces(p) == Cardinality({f \in {"wn", "bn", "wr", "bk"} : p[f] # "x"})

\* gs.undoMove() after the recursive call for move returned in state after
\* to the node that stood in state st; ghost: whether the move was a
\* capture, whether the call ran with fewer pieces on the board, and whether
\* the call and the undo gave back the positions they started from
QTried(st, move, after) ==
    [after EXCEPT
        !.gs = UndoMove(@),
        !.qLog = @ \cup
            {[capture |-> move.cap # "--",
              fewer |-> Pieces(after.gs.pos) < Pieces(st.gs.pos),
              restored |-> /\ after.gs.pos = ApplyMove(st.gs.pos, move)
                           /\ Len(after.gs.log) = Len(st.gs.log) + 1
                           /\ UndoMove(after.gs).pos = st.gs.pos
                           /\ UndoMove(after.gs).log = st.gs.log]}]

\* ghost record of one round of the capture loop of a node whose window
\* is (alpha, beta): the window the recursive call was made with, the
\* child's negated score, and whether the capture comes in descending
\* MVV-LVA order after the one before it
QRound(s, captures, i, alpha, beta, r) ==
    [s EXCEPT !.qSteps = @ \cup
        {[alpha |-> alpha, beta |-> beta, child_alpha |-> r.q_alpha,
          child_beta |-> r.q_beta, score |-> -r.score,
          capture |-> captures[i].cap # "--",
          inOrder |-> i = 1 \/ mvv_lva(captures[i - 1])
                                 >= mvv_lva(captures[i])]}]

\* the body of the for loop over the captures from the return r of the
\* recursive call on
P_qloopNext(st, captures, i, alpha, beta, turn, r) ==
    IF r.aborted THEN r
    ELSE IF -r.score >= beta
    THEN [st |-> QRound(QTried(st, captures[i], r.st), captures, i, alpha,
                        beta, r),
          score |-> beta, aborted |-> FALSE, cutoff |-> TRUE]
    ELSE P_qloop(QRound(QTried(st, captures[i], r.st), captures, i, alpha,
                        beta, r),
                 captures, i + 1,
                 IF -r.score > alpha THEN -r.score ELSE alpha, beta, turn)

\* the for loop over the captures
P_qloop(st, captures, i, alpha, beta, turn) ==
    IF i > Len(captures)
    THEN [st |-> st, score |-> alpha, aborted |-> FALSE, cutoff |-> FALSE]
    ELSE P_qloopNext(st, captures, i, alpha, beta, turn,
             P_quiescence(
                 [st EXCEPT !.gs = MakeMove(@, captures[i]), !.made = @ + 1],
                 -beta, -alpha, -turn))

\* a move list that would also hold the quiet move of the rook
P_captures_rook(p) ==
    LET IsCap(m) == m.cap # "--" \/ (m.piece = "wR" /\ m.from = "a1")
        caps == SelectSeq(ValidMoves(p), IsCap)
    IN  SortedDesc(caps, [i \in 1..Len(caps) |-> mvv_lva(caps[i])])

\* captures, after captures.sort(key=mvv_lva, reverse=True)
P_captures(p) ==
    LET IsCap(m) == m.cap # "--"
        caps == SelectSeq(ValidMoves(p), IsCap)
    IN  SortedDesc(caps, [i \in 1..Len(caps) |-> mvv_lva(caps[i])])

\* ghost record, taken when a quiescence call entered in state before with
\* the window (alpha, beta) returns r normally: the window, the stand-pat
\* value, the value returned, the moves made below the call, and whether
\* the capture loop ended by a fail-high; the result carries the window
QCall(before, alpha, beta, stand_pat, r) ==
    IF r.aborted THEN r @@ [q_alpha |-> alpha, q_beta |-> beta]
    ELSE [st |-> [r.st EXCEPT !.qCalls = @ \cup
                     {[alpha |-> alpha, beta |-> beta,
                       stand_pat |-> stand_pat, score |-> r.score,
                       made |-> r.st.made - before.made,
                       cutoff |-> "cutoff" \in DOMAIN r /\ r.cutoff]}],
          score |-> r.score, aborted |-> FALSE,
          q_alpha |-> alpha, q_beta |-> beta]

\* a quiescence search that would return the stand-pat value itself when
\* it reaches beta
P_quiescence_soft(st, alpha, beta, turn) ==
    QCall(st, alpha, beta, turn * P_scoreBoard(st),
      IF TimeUp(st) THEN [st |-> st, score |-> 0, aborted |-> TRUE]
      ELSE IF turn * P_scoreBoard(st) >= beta
      THEN [st |-> [st EXCEPT !.ticks = @ + 1],
            score |-> turn * P_scoreBoard(st), aborted |-> FALSE]
      ELSE P_qloop([st EXCEPT !.ticks = @ + 1,
                              !.gs = AfterGetValidMoves(@)],
                   P_captures(st.gs.pos), 1,
                   Max(turn * P_scoreBoard(st), alpha), beta, turn))

P_quiescence(st, alpha, beta, turn) ==
    QCall(st, alpha, beta, turn * P_scoreBoard(st),
      IF TimeUp(st) THEN [st |-> st, score |-> 0, aborted |-> TRUE]
      ELSE
        LET st0 == [st EXCEPT !.ticks = @ + 1]
            stand_pat == turn * P_scoreBoard(st0)
        IN  IF stand_pat >= beta
            THEN [st |-> st0, score |-> beta, aborted |-> FALSE]
            ELSE P_qloop([st0 EXCEPT !.gs = AfterGetValidMoves(@)],
                         P_captures(st.gs.pos), 1,
                         IF stand_pat > alpha THEN stand_pat ELSE alpha,
                         beta, turn))

\* if tt_d >= depth
P_TTUsable(tt_d, depth) == tt_d >= depth

\* the bound kind stored on leaving a node
\* a bound kind that would take a score equal to alpha for exact
BoundFlag_strict(maxScore, orig_alpha, beta) ==
    IF maxScore < orig_alpha THEN "upper"
    ELSE IF maxScore >= beta THEN "lower"
    ELSE "exact"

BoundFlag(maxScore, orig_alpha, beta) ==
    IF maxScore <= orig_alpha THEN "upper"
    ELSE IF maxScore >= beta THEN "lower"
    ELSE "exact"

\* killer and history update on a cutoff by a non-capturing move
P_cutoffUpdate(st, depth, move) ==
    IF move.cap = "--"
    THEN [Killed(st, depth, move) EXCEPT
                    !.historyTable =
                        Put(@, HKey(move), Get(@, HKey(move), 0) + depth * depth)]
    ELSE st

\* the table holds an entry usable for the node at this depth
P_Cached(st, depth) ==
    BoardKey(st.gs.pos) \in DOMAIN st.transTable
        /\ P_TTUsable(st.transTable[BoardKey(st.gs.pos)].depth, depth)

RECURSIVE P_negamax(_, _, _, _, _, _, _)
RECURSIVE P_loop(_, _, _, _, _, _, _, _)

\* the body of the for loop from the return r of the recursive call on
P_loopNext(moves, i, depth, alpha, beta, turn, maxScore, r) ==
    LET score == -r.score
        st1   == [r.st EXCEPT !.gs = UndoMove(@)]
        max1  == IF score > maxScore THEN score ELSE maxScore
        alpha1 == IF max1 > alpha THEN max1 ELSE alpha
    IN  IF r.aborted
        THEN [st |-> r.st, maxScore |-> maxScore, cut |-> FALSE,
              aborted |-> TRUE]
        ELSE IF alpha1 >= beta
        THEN [st |-> P_cutoffUpdate(st1, depth, moves[i]), maxScore |-> max1,
              cut |-> TRUE, aborted |-> FALSE]
        ELSE P_loop(st1, moves, i + 1, depth, alpha1, beta, turn, max1)

P_loop(st, moves, i, depth, alpha, beta, turn, maxScore) ==
    IF i > Len(moves)
    THEN [st |-> st, maxScore |-> maxScore, cut |-> FALSE, aborted |-> FALSE]
    ELSE P_loopNext(moves, i, depth, alpha, beta, turn, maxScore,
             P_negamax(Made(st, moves[i]),
                       ValidMoves(ApplyMove(st.gs.pos, moves[i])),
                       depth - 1, -beta, -alpha, -turn, None))

\* the end of a node, from the return l of the loop on: the search-path
\* counter is unwound and the entry stored with its bound kind
P_leave(key, depth, alpha, beta, l) ==
    IF l.aborted
    THEN [st |-> l.st, score |-> 0, aborted |-> TRUE]
    ELSE [st |-> [l.st EXCEPT
                     !.search_history = Put(@, key, @[key] - 1),
                     !.transTable = Put(@, key,
                         [depth |-> depth, score |-> l.maxScore,
                          flag |-> BoundFlag(l.maxScore, alpha, beta),
                          cut |-> l.cut, full |-> key]),
                     !.keyLog = @ \cup
                         KeyUse("write", l.st.transTable, key, key)],
          score |-> l.maxScore, aborted |-> FALSE, cut |-> l.cut]

\* ghost record of the entry a node called with depth and the window
\* (alpha, beta) has stored under key when it returns r; orig_alpha and
\* tt_beta are the window after the table lookup
Stored(key, depth, alpha, beta, orig_alpha, tt_beta, r) ==
    IF r.aborted THEN r
    ELSE [r EXCEPT !.st.storeLog = @ \cup
            {[depth |-> depth, alpha |-> alpha, beta |-> beta,
              orig_alpha |-> orig_alpha, tt_beta |-> tt_beta,
              score |-> r.score,
              stored |-> r.st.transTable[key].depth,
              flag |-> r.st.transTable[key].flag]}]

\* ghost: the use of entry e that answers the call, with the value the same
\* call returns on an empty table (the reference run); not taken inside a
\* reference run
P_answered(st, e, moves, depth, alpha, beta, turn, best_move) ==
    IF st.ref THEN {}
    ELSE {TTUse(e.flag, e.cut, e.flag = "exact", e.depth, depth, e.score,
                TRUE,
                P_negamax([st EXCEPT !.ref = TRUE, !.transTable = EmptyDict],
                          moves, depth, alpha, beta, turn, best_move).score)}

P_negamax(st, moves, depth, alpha, beta, turn, best_move) ==
    Observed(st, P_Cached(st, depth), depth,
      IF TimeUp(st) THEN [st |-> st, score |-> 0, aborted |-> TRUE]
      ELSE
      LET key         == BoardKey(st.gs.pos)
          total_count == Get(st.gameHistory, key, 0)
                           + Get(st.search_history, key, 0)
          stR == [st EXCEPT !.ticks = @ + 1,
                            !.repLog = @ \cup
                               {[nth |-> Occurrence(st),
                                 zero |-> RepetitionHit(total_count)]}]
          hit == P_Cached(st, depth)
          e      == st.transTable[key]
          alphaT == IF hit /\ e.flag = "lower" THEN Max(alpha, e.score) ELSE alpha
          betaT  == IF hit /\ e.flag = "upper" THEN Min(beta, e.score) ELSE beta
      IN
      IF RepetitionHit(total_count)
      THEN [st |-> stR, score |-> 0, aborted |-> FALSE]
      ELSE IF hit /\ (e.flag = "exact" \/ alphaT >= betaT)
      THEN [st |-> [stR EXCEPT !.ttLog = @ \cup
                       P_answered(st, e, moves, depth, alpha, beta, turn,
                                  best_move),
                               !.keyLog = @ \cup
                       KeyUse("read", st.transTable, key, key)],
            score |-> e.score, aborted |-> FALSE]
      ELSE IF depth = 0
      THEN P_quiescence(stR, alphaT, betaT, turn)
      ELSE Stored(key, depth, alpha, beta, alphaT, betaT,
             P_leave(key, depth, alphaT, betaT,
               P_loop([stR EXCEPT !.search_history =
                          Put(@, key, Get(@, key, 0) + 1)],
                      P_order_moves(st, moves, depth, best_move),
                      1, depth, alphaT, betaT, turn, -CHECKMATE))))

RECURSIVE P_rootLoop(_, _, _, _, _, _, _, _, _)

\* the body of the for loop over the root moves from the return r of the
\* call of negamax on
P_rootNext(ordered, i, d, alpha, beta, turn, root_score, root_best, r) ==
    LET score == -r.score
        st1   == [r.st EXCEPT !.gs = UndoMove(@)]
        better == score > root_score
        rs1   == IF better THEN score ELSE root_score
        rb1   == IF better THEN ordered[i] ELSE root_best
        alpha1 == IF rs1 > alpha THEN rs1 ELSE alpha
    IN  IF r.aborted
        THEN [st |-> r.st, root_score |-> root_score,
              root_best |-> root_best, alpha |-> alpha, aborted |-> TRUE]
        ELSE IF alpha1 >= beta
        THEN [st |-> st1, root_score |-> rs1, root_best |-> rb1,
              alpha |-> alpha1, aborted |-> FALSE]
        ELSE P_rootLoop(st1, ordered, i + 1, d, alpha1, beta, turn, rs1, rb1)

\* the for loop over the root moves inside one aspiration attempt
P_rootLoop(st, ordered, i, d, alpha, beta, turn, root_score, root_best) ==
    IF i > Len(ordered)
    THEN [st |-> st, root_score |-> root_score, root_best |-> root_best,
          alpha |-> alpha, aborted |-> FALSE]
    ELSE P_rootNext(ordered, i, d, alpha, beta, turn, root_score, root_best,
             P_negamax([Made(st, ordered[i]) EXCEPT
                           !.search_history = EmptyDict],
                       ValidMoves(ApplyMove(st.gs.pos, ordered[i])),
                       d - 1, -beta, -alpha, -turn, None))

\* 2 ** min(widening, 4)
WidenFactor(widening) == 2 ^ Min(widening, 4)

\* the end of one pass through the while True loop, from the return l of the
\* loop over the root moves on: leave the loop or widen the failed side
P_passEnd(s, use_window, delta, l) ==
    LET out == [st |-> l.st, alpha |-> l.alpha, beta |-> s.beta,
                widening |-> s.widening, root_score |-> l.root_score,
                root_best |-> l.root_best, aborted |-> l.aborted,
                running |-> FALSE,
                passes |-> Append(s.passes,
                              [alpha |-> s.alpha, beta |-> s.beta,
                               root_score |-> l.root_score,
                               aborted |-> l.aborted])]
    IN  IF l.aborted \/ ~use_window
             \/ Abs(l.root_score) >= CHECKMATE_THRESHOLD
        THEN out
        ELSE IF l.root_score <= s.alpha
        THEN [out EXCEPT !.running = TRUE, !.widening = @ + 1,
                  !.alpha = l.alpha - delta * WidenFactor(s.widening + 1)]
        ELSE IF l.root_score >= s.beta
        THEN [out EXCEPT !.running = TRUE, !.widening = @ + 1,
                  !.beta = s.beta + delta * WidenFactor(s.widening + 1)]
        ELSE out

\* one pass through the body of the while True loop of one depth: search
\* the root moves, then either leave the loop or widen the failed side
P_aspirationPass(s, validMoves, d, best_move_so_far, turn, use_window, delta) ==
    P_passEnd(s, use_window, delta,
        P_rootLoop(s.st, P_order_moves(s.st, validMoves, d, best_move_so_far),
                   1, d, s.alpha, s.beta, turn, -CHECKMATE, None))

\* the passes possible before the window covers every score: each failed
\* pass moves one edge by at least 2 * ASPIRATION_DELTA_TIGHT, and a root
\* score beyond CHECKMATE_THRESHOLD leaves the loop
MaxPasses == 2 * (CHECKMATE \div (2 * ASPIRATION_DELTA_TIGHT)) + 2

\* at most n passes of the while True loop, in sequence
RECURSIVE P_aspirationLoop(_, _, _, _, _, _, _, _)
P_aspirationLoop(s, n, validMoves, d, best_move_so_far, turn, use_window, delta) ==
    IF ~s.running \/ n = 0 THEN s
    ELSE IF n = 1
    THEN P_aspirationPass(s, validMoves, d, best_move_so_far, turn,
                          use_window, delta)
    ELSE P_aspirationLoop(
             P_aspirationLoop(s, n \div 2, validMoves, d, best_move_so_far,
                              turn, use_window, delta),
             n - (n \div 2), validMoves, d, best_move_so_far, turn,
             use_window, delta)

\* the while True loop of one depth
P_aspiration(st, validMoves, d, best_move_so_far, alpha, beta, turn, use_window, delta, widening) ==
    P_aspirationLoop(
        [st |-> st, alpha |-> alpha, beta |-> beta, widening |-> widening,
         root_score |-> -CHECKMATE, root_best |-> None, aborted |-> FALSE,
         running |-> TRUE, passes |-> <<>>],
        MaxPasses, validMoves, d, best_move_so_far, turn, use_window, delta)

\* elapsed > TIME_LIMIT * 0.72, at the st.ticks-th reading of the clock
BudgetExhausted(st) == st.ticks >= st.softAt

\* a use_window that would not look at the size of the previous score
UseWindow_mate(d, parity_scores) ==
    /\ Len(parity_scores[d % 2]) > 0
    /\ d > 2

\* use_window of depth d; parity_scores[p] is <<>> for None and <<s>> for
\* the score s
UseWindow(d, parity_scores) ==
    /\ Len(parity_scores[d % 2]) > 0
    /\ d > 2
    /\ Abs(parity_scores[d % 2][1]) < CHECKMATE_THRESHOLD

\* a driver that would keep the move of the first depth that recorded one
KeepBest_first(iter_best, best_move_so_far) ==
    IF best_move_so_far # None THEN best_move_so_far ELSE iter_best

\* if iter_best is not None: best_move_so_far = iter_best
KeepBest(iter_best, best_move_so_far) ==
    IF iter_best # None THEN iter_best ELSE best_move_so_far

RECURSIVE P_deepen(_, _, _, _, _, _)

\* the body of the for loop over d from the end a of the while True loop on
P_deepenNext(validMoves, d, best_move_so_far, parity_scores, stable_depths, alpha, beta, delta, a) ==
    LET use_window == UseWindow(d, parity_scores)
        stable1 == IF use_window
                   THEN (IF 2 * Abs(a.root_score - parity_scores[d % 2][1])
                              < delta
                         THEN stable_depths + 1 ELSE 0)
                   ELSE stable_depths
        entry == [d |-> d, completed |-> ~a.aborted,
                  root_best |-> a.root_best, widening |-> a.widening,
                  alpha |-> alpha, beta |-> beta,
                  root_score |-> a.root_score,
                  before |-> best_move_so_far, stable |-> stable_depths,
                  last_alpha |-> a.alpha, last_beta |-> a.beta,
                  passes |-> a.passes]
        stL == [a.st EXCEPT !.depthLog = Append(@, entry)]
    IN  IF a.aborted
        THEN [st |-> stL, best |-> best_move_so_far]
        ELSE P_deepen(stL, validMoves, d + 1,
                      KeepBest(a.root_best, best_move_so_far),
                      [parity_scores EXCEPT ![d % 2] = <<a.root_score>>],
                      stable1)

\* the for loop over d of findMoveIterativeDeepening
P_deepen(st, validMoves, d, best_move_so_far, parity_scores, stable_depths) ==
    IF d > P_DEPTH THEN [st |-> st, best |-> best_move_so_far]
    ELSE IF d > 1 /\ BudgetExhausted(st)
    THEN [st |-> st, best |-> best_move_so_far]
    ELSE
      LET use_window == UseWindow(d, parity_scores)
          prev_score == IF use_window THEN parity_scores[d % 2][1] ELSE 0
          delta == IF stable_depths >= 2 THEN ASPIRATION_DELTA_TIGHT
                   ELSE ASPIRATION_DELTA_INITIAL
          alpha == IF use_window THEN prev_score - delta ELSE -CHECKMATE
          beta  == IF use_window THEN prev_score + delta ELSE CHECKMATE
      IN  P_deepenNext(validMoves, d, best_move_so_far, parity_scores,
              stable_depths, alpha, beta, delta,
              P_aspiration(st, validMoves, d, best_move_so_far, alpha, beta,
                           IF st.gs.pos.wtm THEN 1 ELSE -1, use_window,
                           delta, 0))

\* killerMoves = [[None, None] ...]; historyTable = {}
P_reset(st) ==
    [st EXCEPT !.killerMoves = NoKillers(P_DEPTH + 1),
               !.historyTable = EmptyDict]

\* ghost: the history table as the search of the call first sees it
P_started(st) == [st EXCEPT !.histStart = st.historyTable]

P_findMoveIterativeDeepening(st, validMoves) ==
    P_deepen(P_started(P_reset(st)),
             validMoves, 1, None, [p \in 0..1 |-> <<>>], 0)

\* findBestMove up to the return of findMoveIterativeDeepening
P_search(mod, gs, validMoves, hardAt, softAt) ==
    P_findMoveIterativeDeepening(
        [Recorded(mod, gs) EXCEPT !.hardAt = hardAt, !.softAt = softAt],
        validMoves)

\* a findBestMove without the random fallback: what the search left is
\* handed on as it is
P_finish_asis(sr, validMoves, hasQueue, pick) ==
    [st     |-> sr.st,
     raised |-> FALSE,
     ret    |-> IF hasQueue THEN None ELSE sr.best,
     queue  |-> IF hasQueue THEN <<sr.best>> ELSE <<>>,
     score  |-> 0,
     fallback |-> sr.best = None]

\* findBestMove from "if chosen is None" on; pick is the index
\* random.choice draws, which raises IndexError on an empty list
P_finish(sr, validMoves, hasQueue, pick) ==
    LET raises == sr.best = None /\ Len(validMoves) = 0
        chosen == IF sr.best # None THEN sr.best
                  ELSE IF raises THEN None
                  ELSE validMoves[((pick - 1) % Len(validMoves)) + 1]
    IN  [st     |-> IF raises THEN sr.st
                    ELSE [sr.st EXCEPT !.nextMove = chosen],
         raised |-> raises,
         ret    |-> IF hasQueue \/ raises THEN None ELSE chosen,
         queue  |-> IF hasQueue /\ ~raises THEN <<chosen>> ELSE <<>>,
         score  |-> 0,
         fallback |-> sr.best = None]

\* findBestMove(gs, validMoves, returnQueue)
P_findBestMove(mod, gs, validMoves, hasQueue, hardAt, softAt, pick) ==
    P_finish(P_search(mod, gs, validMoves, hardAt, softAt), validMoves,
             hasQueue, pick)

\* ------------------------------------------------------------------------
\* Fortress (ai_fortress.py)
\* ------------------------------------------------------------------------

F_DEPTH == 3

\* pieceScore of Fortress, in Units
F_pieceScore(kind) ==
    IF kind = "p" THEN (14 * Unit) \div 10 ELSE PieceScore(kind) * Unit

\* the squares of the row in front of the black king, one column to each
\* side of it
F_shield(bk) ==
    IF bk = "e8" THEN {"d7", "e7", "f7"}
    ELSE IF bk = "e7" THEN {"d6", "e6", "f6"}
    ELSE {"e5", "f5", "g5"}

\* king_safety(black_king_row, black_king_col, "b"): the column term and
\* the penalty for each empty shield square (there are no pawns)
F_king_safety(p) ==
    (IF p.bk = "f6" THEN (7 * Unit) \div 10 ELSE 0 - ((8 * Unit) \div 10))
    - (Unit \div 4) * Cardinality(F_shield(p.bk) \ {p.wn, p.bn, p.wr, p.bk})

\* king_safety(7, 4, "w"): no white king is found on the board, so the
\* initial square e1 is used, with three empty shield squares
F_king_safety_white == 0 - ((8 * Unit) \div 10) - 3 * (Unit \div 4)

F_scoreBoard(st) ==
    IF st.gs.checkmate THEN (IF st.gs.pos.wtm THEN -CHECKMATE ELSE CHECKMATE)
    ELSE IF st.gs.stalemate THEN STALEMATE
    ELSE BoardScore(st.ev, Board(st.gs.pos))
         + F_king_safety_white - F_king_safety(st.gs.pos)

\* move.endRow
EndRow(sq) ==
    IF sq \in {"g8", "e8"} THEN 0 ELSE IF sq \in {"a7", "e7"} THEN 1
    ELSE IF sq = "f6" THEN 2 ELSE IF sq = "e4" THEN 4
    ELSE IF sq = "c3" THEN 5 ELSE 7

\* an is_overextending that would not look at the row
is_overextending_anywhere(move, color) ==
    /\ Kind(move.piece) \in {"Q", "R"}
    /\ move.cap = "--"

is_overextending(move, color) ==
    /\ Kind(move.piece) \in {"Q", "R"}
    /\ move.cap = "--"
    /\ IF color = "w" THEN EndRow(move.end) <= 2 ELSE EndRow(move.end) >= 5

\* material_balance(gs, color), in Units
F_material_balance(p, color) ==
    LET w == (IF p.wn # "x" THEN F_pieceScore("N") ELSE 0) + F_pieceScore("R")
        b == (IF p.bn # "x" THEN F_pieceScore("N") ELSE 0) + F_pieceScore("K")
    IN  IF color = "w" THEN w - b ELSE b - w

\* gain of a capture in order_moves
F_gain(m) == F_pieceScore(Kind(m.cap)) - F_pieceScore(Kind(m.piece))

\* order_moves(moves): winning captures, equal captures, quiet moves,
\* losing captures, each in input order
F_order_moves(moves) ==
    LET Winning(m) == m.cap # "--" /\ F_gain(m) > 0
        Equal(m)   == m.cap # "--" /\ F_gain(m) = 0
        Quiet(m)   == m.cap = "--"
        Losing(m)  == m.cap # "--" /\ F_gain(m) < 0
    IN  SelectSeq(moves, Winning) \o SelectSeq(moves, Equal)
        \o SelectSeq(moves, Quiet) \o SelectSeq(moves, Losing)

RECURSIVE F_negamax(_, _, _, _, _, _)
RECURSIVE F_loop(_, _, _, _, _, _, _, _)

\* the body of the for loop from the return r of the recursive call on
F_loopNext(moves, i, depth, alpha, beta, turnMultiplier, maxScore, r) ==
    LET score  == -r.score
        max1   == IF score > maxScore THEN score ELSE maxScore
        st1    == [r.st EXCEPT !.gs = UndoMove(@)]
        alpha1 == IF max1 > alpha THEN max1 ELSE alpha
    IN  IF alpha1 >= beta THEN [st |-> st1, maxScore |-> max1]
        ELSE F_loop(st1, moves, i + 1, depth, alpha1, beta, turnMultiplier,
                    max1)

F_loop(st, moves, i, depth, alpha, beta, turnMultiplier, maxScore) ==
    IF i > Len(moves) THEN [st |-> st, maxScore |-> maxScore]
    ELSE F_loopNext(moves, i, depth, alpha, beta, turnMultiplier, maxScore,
             F_negamax(Made(st, moves[i]),
                       ValidMoves(ApplyMove(st.gs.pos, moves[i])),
                       depth - 1, -beta, -alpha, -turnMultiplier))

\* the end of a node, from the return l of the loop on: the entry is stored
\* in tt (st.transTable is the dict tt passed down the recursion)
F_leave(board_key, depth, orig_alpha, beta, l) ==
    [st |-> [l.st EXCEPT !.transTable =
                Put(@, board_key,
                    [depth |-> depth, score |-> l.maxScore,
                     flag |-> BoundFlag(l.maxScore, orig_alpha, beta)])],
     score |-> l.maxScore]

\* the depth-0 node: evaluated and stored as exact
F_leaf(st, board_key, result) ==
    [st |-> [st EXCEPT !.transTable =
                Put(@, board_key,
                    [depth |-> 0, score |-> result, flag |-> "exact"])],
     score |-> result]

F_negamax(st, moves, depth, alpha, beta, turnMultiplier) ==
    LET board_key == G_boardKey(st.gs.pos)
        hit    == /\ board_key \in DOMAIN st.transTable
                  /\ st.transTable[board_key].depth >= depth
        e      == st.transTable[board_key]
        alpha1 == IF hit /\ e.flag = "lower" THEN Max(alpha, e.score)
                                             ELSE alpha
        beta1  == IF hit /\ e.flag = "upper" THEN Min(beta, e.score)
                                             ELSE beta
    IN  IF hit /\ (e.flag = "exact" \/ alpha1 >= beta1)
        THEN [st |-> st, score |-> e.score]
        ELSE IF depth = 0
        THEN F_leaf(st, board_key, turnMultiplier * F_scoreBoard(st))
        ELSE F_leave(board_key, depth, alpha1, beta1,
                 F_loop(st, IF depth >= 2 THEN F_order_moves(moves) ELSE moves,
                        1, depth, alpha1, beta1, turnMultiplier, -CHECKMATE))

RECURSIVE F_probeLoop(_, _, _, _, _)

F_probeNext(ordered, i, turnMultiplier, shallow, r) ==
    F_probeLoop([r.st EXCEPT !.gs = UndoMove(@)], ordered, i + 1,
                turnMultiplier, Append(shallow, -r.score))

\* the first loop of _root_search: the depth-0 score of every root move
F_probeLoop(st, ordered, i, turnMultiplier, shallow) ==
    IF i > Len(ordered) THEN [st |-> st, shallow |-> shallow]
    ELSE F_probeNext(ordered, i, turnMultiplier, shallow,
             F_negamax(Made(st, ordered[i]),
                       ValidMoves(ApplyMove(st.gs.pos, ordered[i])),
                       0, -CHECKMATE, CHECKMATE, -turnMultiplier))

RECURSIVE F_rawLoop(_, _, _, _, _, _, _)

F_rawNext(ordered, i, depth, turnMultiplier, alpha, raw, shallow, r) ==
    F_rawLoop([r.st EXCEPT !.gs = UndoMove(@)], ordered, i + 1, depth,
              turnMultiplier,
              IF -r.score > alpha THEN -r.score ELSE alpha,
              [raw |-> Append(raw, -r.score), shallow |-> shallow])

\* the second loop of _root_search: the score of every root move at
\* depth - 1, with the window (-CHECKMATE, -alpha) and the table the first
\* loop and the earlier root moves have filled; acc holds raw_scores and
\* shallow_scores
F_rawLoop(st, ordered, i, depth, turnMultiplier, alpha, acc) ==
    IF i > Len(ordered)
    THEN [st |-> st, raw |-> acc.raw, shallow |-> acc.shallow]
    ELSE F_rawNext(ordered, i, depth, turnMultiplier, alpha, acc.raw,
                   acc.shallow,
             F_negamax(Made(st, ordered[i]),
                       ValidMoves(ApplyMove(st.gs.pos, ordered[i])),
                       depth - 1, -CHECKMATE, -alpha, -turnMultiplier))

\* the adjusted score of a root move, in tenths of the model's score unit
\* (VARIANCE_PENALTY 0.3, OVEREXTENSION_PENALTY 0.3, TRADE_THRESHOLD 1.0,
\* TRADE_BONUS 0.25)
F_adjusted(move, color, mat_advantage, raw, s1) ==
    10 * raw - 3 * Abs(raw - s1)
    - (IF is_overextending(move, color) THEN 3 * Unit ELSE 0)
    + (IF /\ mat_advantage > Unit
          /\ move.cap # "--"
          /\ F_pieceScore(Kind(move.cap)) >= F_pieceScore(Kind(move.piece))
       THEN (10 * Unit) \div 4 ELSE 0)

\* the adjusted list of _root_search, before the sort
F_adjustedList(ordered, color, mat_advantage, l) ==
    [i \in 1..Len(ordered) |->
        [move |-> ordered[i], raw |-> l.raw[i], shallow |-> l.shallow[i],
         adj |-> F_adjusted(ordered[i], color, mat_advantage, l.raw[i],
                            l.shallow[i])]]

\* adjusted.sort(key=lambda x: x[2], reverse=True)
F_sorted(st, adjusted) ==
    [st |-> st, adjusted |-> adjusted,
     sorted |-> SortedDesc(adjusted,
                   [i \in 1..Len(adjusted) |-> adjusted[i].adj])]

\* the second loop, started after the first has run (p is its return)
F_rawStart(ordered, depth, turnMultiplier, p) ==
    F_rawLoop(p.st, ordered, 1, depth, turnMultiplier, -CHECKMATE,
              [raw |-> <<>>, shallow |-> p.shallow])

\* the adjustment and the sort, from the return l of the second loop on
F_rootEnd(ordered, color, mat_advantage, l) ==
    F_sorted(l.st, F_adjustedList(ordered, color, mat_advantage, l))

\* _root_search(gs, validMoves, depth, turnMultiplier, color) up to the
\* sort, with tt = {}
F_root_search(st, validMoves, depth, turnMultiplier, color) ==
    F_rootEnd(F_order_moves(validMoves), color,
              F_material_balance(st.gs.pos, color),
              F_rawStart(F_order_moves(validMoves), depth, turnMultiplier,
                  F_probeLoop([st EXCEPT !.transTable = EmptyDict],
                              F_order_moves(validMoves), 1, turnMultiplier,
                              <<>>)))

\* _root_search from adjusted[0] on, which raises IndexError on an empty
\* list, and the end of findBestMove; tt is dropped at the return
F_finish(sr, hasQueue) ==
    IF Len(sr.sorted) = 0
    THEN [st |-> [sr.st EXCEPT !.transTable = EmptyDict], raised |-> TRUE,
          ret |-> None, queue |-> <<>>, score |-> 0, fallback |-> FALSE,
          rootLog |-> <<>>]
    ELSE [st |-> [sr.st EXCEPT !.nextMove = sr.sorted[1].move,
                               !.transTable = EmptyDict],
          raised |-> FALSE,
          ret |-> IF hasQueue THEN None ELSE sr.sorted[1].move,
          queue |-> IF hasQueue THEN <<sr.sorted[1].move>> ELSE <<>>,
          score |-> sr.sorted[1].adj, fallback |-> FALSE,
          rootLog |-> sr.adjusted]

\* the score of root move m as a search of its own gives it: depth
\* F_DEPTH - 1 below m, full window, empty table
F_fullScore(st, m, turnMultiplier) ==
    -F_negamax([Made(st, m) EXCEPT !.transTable = EmptyDict],
               ValidMoves(ApplyMove(st.gs.pos, m)), F_DEPTH - 1,
               -CHECKMATE, CHECKMATE, -turnMultiplier).score

\* ghost: the record of the root moves of a call, each with that score
F_observed(st, turnMultiplier, r) ==
    [r EXCEPT !.rootLog =
        [i \in 1..Len(r.rootLog) |->
            [move |-> r.rootLog[i].move, raw |-> r.rootLog[i].raw,
             shallow |-> r.rootLog[i].shallow, adj |-> r.rootLog[i].adj,
             full |-> F_fullScore(st, r.rootLog[i].move, turnMultiplier)]]]

\* findBestMove(gs, validMoves, returnQueue); shuffled is the outcome of
\* random.shuffle(validMoves)
F_findBestMove(mod, gs, validMoves, hasQueue, shuffled) ==
    F_observed(SearchState(mod, gs), IF gs.pos.wtm THEN 1 ELSE -1,
        F_finish(F_root_search(SearchState(mod, gs), shuffled, F_DEPTH,
                               IF gs.pos.wtm THEN 1 ELSE -1,
                               IF gs.pos.wtm THEN "w" ELSE "b"),
                 hasQueue))

\* ------------------------------------------------------------------------
\* Reference search: the negamax of the personalities with the cut, the
\* move ordering and the tables taken out
\* ------------------------------------------------------------------------

\* the value of a depth-0 node under each personality's evaluation
LeafValue(who, st, turnMultiplier) ==
    IF who = "gambler" THEN turnMultiplier * G_scoreBoard(st)
    ELSE IF who = "tactician" THEN turnMultiplier * T_scoreBoard(st)
    ELSE IF who = "fortress" THEN turnMultiplier * F_scoreBoard(st)
    ELSE P_quiescence([st EXCEPT !.ref = TRUE], -CHECKMATE, CHECKMATE,
                      turnMultiplier).score

RECURSIVE PlainNegamax(_, _, _, _)

\* the scores of the children of a node, negated
PlainChildren(who, st, moves, depth, turnMultiplier) ==
    {-PlainNegamax(who, [st EXCEPT !.gs = AfterGetValidMoves(
                                              MakeMove(@, moves[i]))],
                   depth - 1, -turnMultiplier) : i \in 1..Len(moves)}

PlainNegamax(who, st, depth, turnMultiplier) ==
    IF who # "fortress" /\ RepetitionHit(TotalCount(st)) THEN 0
    ELSE IF depth = 0 THEN LeafValue(who, st, turnMultiplier)
    ELSE SetMax({-CHECKMATE} \cup
             PlainChildren(who,
                 [st EXCEPT !.search_history =
                     Put(@, BoardKey(st.gs.pos),
                         Get(@, BoardKey(st.gs.pos), 0) + 1)],
                 ValidMoves(st.gs.pos), depth, turnMultiplier))

\* ------------------------------------------------------------------------
\* SpecEngine: one process that has imported one personality and calls it
\* on a game it plays move by move
\* ------------------------------------------------------------------------

\* the process: the personality it has imported, its GameState, the module
\* globals of the personality, what its last call returned, and the calls
\* and moves it has made
VARIABLES who, gs, mod, res, steps

engineVars == <<who, gs, mod, res, steps>>

\* the main program (main.py): the answers of the setup dialogs, the
\* personalities in sys.modules with their module globals in the main
\* process, the locals of main(), the move finder process with its result
\* channel, and two ghosts: for every position of the game path the
\* personalities whose findBestMove has run on it (calls), and what the last
\* undo removed and notified (undo)
VARIABLES setup, sys_modules, modules, game, valid_moves, game_over,
          ai_thinking, move_undone, position_count, proc, calls, undo

mainVars == <<setup, sys_modules, modules, game, valid_moves, game_over,
              ai_thinking, move_undone, position_count, proc, calls, undo>>

\* a TranspositionTable object (ai_personality_base.py): its dict, in
\* insertion order, its max_size, and the result of the last get
VARIABLES table, max_size, got

tableVars == <<table, max_size, got>>

\* the variables of the program parts a specification leaves out
MainIdle ==
    /\ setup = 0 /\ sys_modules = {} /\ modules = 0 /\ game = 0
    /\ valid_moves = <<>> /\ game_over = FALSE /\ ai_thinking = FALSE
    /\ move_undone = FALSE /\ position_count = <<>> /\ proc = 0
    /\ calls = <<>> /\ undo = 0

EngineIdle == who = "" /\ gs = 0 /\ mod = 0 /\ res = 0 /\ steps = 0

TableIdle == table = <<>> /\ max_size = 0 /\ got = <<>>

Personalities == {"prophet", "gambler", "tactician"}

\* the personalities the process of SpecEngine may have imported
EnginePersonalities == Personalities \cup {"fortress"}

\* the module globals of personality w right after import
ImportState(w, ev) ==
    ModuleState(ev,
        IF w = "gambler" THEN NoKillers(G_DEPTH)
        ELSE IF w = "prophet" THEN NoKillers(P_DEPTH + 1)
        ELSE NoKillers(0))

\* the module globals a search leaves behind
ModuleOf(st) ==
    [ev |-> st.ev, gameHistory |-> st.gameHistory,
     transTable |-> st.transTable, killerMoves |-> st.killerMoves,
     historyTable |-> st.historyTable, nextMove |-> st.nextMove]

\* the games the process may have been handed: lines of play from the start
\* position, each move given by its index in the legal-move list
OpeningLines == {<<>>, <<1, 1, 3>>, <<1, 1, 2, 1>>, <<1, 1, 3, 1>>}

RECURSIVE Replay(_, _, _)
Replay(g, line, i) ==
    IF i > Len(line) THEN g
    ELSE Replay(AfterGetValidMoves(MakeMove(g, ValidMoves(g.pos)[line[i]])),
                line, i + 1)

\* the calls of the personality and the moves played that a run has
MaxSteps == 3

\* clock readings after which the deadline has passed (hardAt), and after
\* which 72% of the budget has (softAt); MaxTicks readings are more than a
\* search of this game tree makes
MaxTicks == 400

Deadlines ==
    {[hardAt |-> 0, softAt |-> 0], [hardAt |-> 7, softAt |-> 7],
     [hardAt |-> 50, softAt |-> 50],
     [hardAt |-> MaxTicks, softAt |-> MaxTicks]}

\* all orders random.shuffle can leave a list in
Shuffles(moves) ==
    {q \in [1..Len(moves) -> 1..Len(moves)] :
        \A i, j \in 1..Len(moves) : i # j => q[i] # q[j]}

Shuffled(moves, q) == [i \in 1..Len(moves) |-> moves[q[i]]]

NoResult ==
    [op |-> "none", moves |-> <<>>, hasQueue |-> FALSE, raised |-> FALSE,
     ret |-> None, queue |-> <<>>, fallback |-> FALSE, depth |-> 0,
     score |-> 0, plain |-> 0, aborted |-> FALSE, fresh |-> FALSE,
     before |-> EmptyDict, topMoves |-> <<>>, weights |-> <<>>,
     restored |-> TRUE, flags |-> <<>>, ordered |-> <<>>, hint |-> None,
     repLog |-> {}, hitLog |-> {}, ttLog |-> {}, depthLog |-> <<>>,
     qLog |-> {}, storeLog |-> {}, pathLog |-> {}, keyLog |-> {},
     killLog |-> {}, qSteps |-> {}, qCalls |-> {},
     histStart |-> EmptyDict, rootLog |-> <<>>, leaf |-> 0]

\* what the caller and the ghost logs show of a findBestMove call r on the
\* list moves, entered with gameHistory before
CallResult(r, moves, hasQueue, before) ==
    [op |-> "findBestMove", moves |-> moves, hasQueue |-> hasQueue,
     raised |-> r.raised, ret |-> r.ret, queue |-> r.queue,
     fallback |-> r.fallback, depth |-> 0, score |-> r.score, plain |-> 0,
     aborted |-> FALSE, fresh |-> FALSE, before |-> before,
     topMoves |-> IF "topMoves" \in DOMAIN r THEN r.topMoves ELSE <<>>,
     weights |-> IF "weights" \in DOMAIN r THEN r.weights ELSE <<>>,
     restored |-> r.st.gs.pos = gs.pos /\ r.st.gs.log = gs.log,
     flags |-> <<>>, ordered |-> <<>>, hint |-> None,
     repLog |-> r.st.repLog, hitLog |-> r.st.hitLog, ttLog |-> r.st.ttLog,
     depthLog |-> r.st.depthLog, qLog |-> r.st.qLog,
     storeLog |-> r.st.storeLog, pathLog |-> r.st.pathLog,
     keyLog |-> r.st.keyLog, killLog |-> r.st.killLog,
     qSteps |-> r.st.qSteps, qCalls |-> r.st.qCalls,
     histStart |-> r.st.histStart,
     rootLog |-> IF "rootLog" \in DOMAIN r THEN r.rootLog ELSE <<>>,
     leaf |-> 0]

EngineInit ==
    /\ who \in EnginePersonalities
    /\ \E ev \in 1..Len(EvalProfiles) : mod = ImportState(who, ev)
    /\ \E line \in OpeningLines :
          gs = Replay(AfterGetValidMoves(NewGameState(StartPos)), line, 1)
    /\ res = NoResult
    /\ steps = 0
    /\ MainIdle
    /\ TableIdle

\* the process calls findBestMove(gs, gs.getValidMoves(), returnQueue) of
\* its personality, with or without a result channel
E_FindBestMove ==
    /\ steps < MaxSteps
    /\ res = NoResult
    /\ \E hasQueue \in BOOLEAN :
       \E r \in
          IF who = "gambler"
          THEN {G_finish(sr, ValidMoves(gs.pos), hasQueue,
                         Shuffled(ValidMoves(gs.pos), q), pick) :
                   sr \in {G_search(mod, AfterGetValidMoves(gs),
                                    ValidMoves(gs.pos))},
                   q \in Shuffles(ValidMoves(gs.pos)), pick \in 1..3}
          ELSE IF who = "tactician"
          THEN {T_findBestMove(mod, AfterGetValidMoves(gs),
                               ValidMoves(gs.pos), hasQueue,
                               Shuffled(ValidMoves(gs.pos), q)) :
                   q \in Shuffles(ValidMoves(gs.pos))}
          ELSE IF who = "fortress"
          THEN {F_findBestMove(mod, AfterGetValidMoves(gs),
                               ValidMoves(gs.pos), hasQueue,
                               Shuffled(ValidMoves(gs.pos), q)) :
                   q \in Shuffles(ValidMoves(gs.pos))}
          ELSE UNION {{P_finish(sr, ValidMoves(gs.pos), hasQueue, pick) :
                          pick \in IF sr.best = None
                                   THEN 1..Max(1, Len(ValidMoves(gs.pos)))
                                   ELSE {1}} :
                      sr \in {P_search(mod, AfterGetValidMoves(gs),
                                       ValidMoves(gs.pos), t.hardAt,
                                       t.softAt) : t \in Deadlines}} :
          /\ res' = CallResult(r, ValidMoves(gs.pos), hasQueue,
                               mod.gameHistory)
          /\ mod' = ModuleOf(r.st)
          /\ gs' = r.st.gs
    /\ steps' = steps + 1
    /\ UNCHANGED <<who, mainVars, tableVars>>

\* the depths a personality's negamax is called with
DepthOf(w) ==
    IF w = "gambler" THEN G_DEPTH
    ELSE IF w = "prophet" THEN P_DEPTH
    ELSE IF w = "fortress" THEN F_DEPTH ELSE T_DEPTH

\* the ways the process calls negamax directly: with tables as they are
\* right after import or with the tables of its module as they are, and
\* (Prophet) with a deadline that is far away or one that has passed
NegamaxCalls ==
    {[fresh |-> TRUE, hardAt |-> MaxTicks],
     [fresh |-> FALSE, hardAt |-> MaxTicks],
     [fresh |-> FALSE, hardAt |-> 0]}

\* the state such a call starts in
NegamaxState(c) ==
    [SearchState(IF c.fresh
                 THEN [ImportState(who, mod.ev) EXCEPT
                          !.gameHistory = mod.gameHistory]
                 ELSE mod,
                 AfterGetValidMoves(gs))
        EXCEPT !.rootCounted = FALSE, !.nextMove = mod.nextMove,
               !.hardAt = c.hardAt, !.softAt = c.hardAt]

\* the process calls the negamax of its personality on the position, with
\* the full window
E_Negamax ==
    /\ steps < MaxSteps
    /\ res = NoResult
    /\ \E d \in 1..DepthOf(who) :
       \E c \in NegamaxCalls :
       \E r \in {IF who = "gambler"
                 THEN G_findMoveNegaMaxAlphaBeta(
                          NegamaxState(c), ValidMoves(gs.pos), d,
                          -CHECKMATE, CHECKMATE,
                          IF gs.pos.wtm THEN 1 ELSE -1)
                 ELSE IF who = "tactician"
                 THEN T_findMoveNegaMaxAlphaBeta(
                          NegamaxState(c), ValidMoves(gs.pos), d,
                          -CHECKMATE, CHECKMATE,
                          IF gs.pos.wtm THEN 1 ELSE -1)
                 ELSE IF who = "fortress"
                 THEN F_negamax(NegamaxState(c), ValidMoves(gs.pos), d,
                                -CHECKMATE, CHECKMATE,
                                IF gs.pos.wtm THEN 1 ELSE -1)
                 ELSE P_negamax(NegamaxState(c), ValidMoves(gs.pos), d,
                                -CHECKMATE, CHECKMATE,
                                IF gs.pos.wtm THEN 1 ELSE -1, None)} :
          /\ res' = [NoResult EXCEPT
                        !.op = "negamax", !.moves = ValidMoves(gs.pos),
                        !.depth = d, !.score = r.score, !.fresh = c.fresh,
                        !.plain = IF c.fresh
                                  THEN PlainNegamax(who, NegamaxState(c), d,
                                           IF gs.pos.wtm THEN 1 ELSE -1)
                                  ELSE 0,
                        !.aborted = "aborted" \in DOMAIN r /\ r.aborted,
                        !.leaf = (IF gs.pos.wtm THEN 1 ELSE -1)
                                 * (IF who = "gambler"
                                    THEN G_scoreBoard(NegamaxState(c))
                                    ELSE IF who = "tactician"
                                    THEN T_scoreBoard(NegamaxState(c))
                                    ELSE IF who = "fortress"
                                    THEN F_scoreBoard(NegamaxState(c))
                                    ELSE P_scoreBoard(NegamaxState(c))),
                        !.before = mod.gameHistory,
                        !.repLog = r.st.repLog, !.hitLog = r.st.hitLog,
                        !.ttLog = r.st.ttLog, !.qLog = r.st.qLog,
                        !.storeLog = r.st.storeLog,
                        !.pathLog = r.st.pathLog, !.keyLog = r.st.keyLog,
                        !.killLog = r.st.killLog,
                        !.qSteps = r.st.qSteps, !.qCalls = r.st.qCalls,
                        !.restored = /\ r.st.gs.pos = gs.pos
                                     /\ r.st.gs.log = gs.log]
          /\ mod' = IF c.fresh THEN mod ELSE ModuleOf(r.st)
          /\ gs' = IF c.fresh THEN gs ELSE r.st.gs
    /\ steps' = steps + 1
    /\ UNCHANGED <<who, mainVars, tableVars>>

\* the process calls scoreBoard(gs) of its personality on its GameState,
\* with the checkmate and stalemate flags as any caller may have set them
E_ScoreBoard ==
    /\ steps < MaxSteps
    /\ res = NoResult
    /\ \E checkmate, stalemate \in BOOLEAN :
       \E st \in {[ev |-> mod.ev,
                   gs |-> [AfterGetValidMoves(gs) EXCEPT
                              !.checkmate = checkmate,
                              !.stalemate = stalemate]]} :
          res' = [NoResult EXCEPT
                     !.op = "scoreBoard",
                     !.flags = <<checkmate, stalemate>>,
                     !.score = IF who = "gambler" THEN G_scoreBoard(st)
                               ELSE IF who = "tactician"
                               THEN T_scoreBoard(st)
                               ELSE IF who = "fortress"
                               THEN F_scoreBoard(st)
                               ELSE P_scoreBoard(st)]
    /\ steps' = steps + 1
    /\ UNCHANGED <<who, gs, mod, mainVars, tableVars>>

\* the process calls Prophet's order_moves(moves, depth, best_move) on the
\* legal moves of its position, with the killer and history tables of its
\* module as they are and any hint
E_OrderMoves ==
    /\ steps < MaxSteps
    /\ res = NoResult
    /\ who = "prophet"
    /\ \E d \in 1..P_DEPTH :
       \E best_move \in {None} \cup {ValidMoves(gs.pos)[i] :
                                        i \in 1..Len(ValidMoves(gs.pos))} :
          res' = [NoResult EXCEPT
                     !.op = "order_moves", !.moves = ValidMoves(gs.pos),
                     !.depth = d, !.hint = best_move,
                     !.ordered = P_order_moves(mod, ValidMoves(gs.pos), d,
                                               best_move)]
    /\ steps' = steps + 1
    /\ UNCHANGED <<who, gs, mod, mainVars, tableVars>>

\* the process plays a legal move on its GameState
E_Play ==
    /\ steps < MaxSteps
    /\ res = NoResult
    /\ \E i \in 1..Len(ValidMoves(gs.pos)) :
          gs' = AfterGetValidMoves(MakeMove(gs, ValidMoves(gs.pos)[i]))
    /\ steps' = steps + 1
    /\ UNCHANGED <<who, mod, res, mainVars, tableVars>>

\* the process is done with the result of its last call
E_Return ==
    /\ res # NoResult
    /\ res' = NoResult
    /\ UNCHANGED <<who, gs, mod, steps, mainVars, tableVars>>

EngineNext ==
    \/ E_FindBestMove \/ E_Negamax \/ E_ScoreBoard \/ E_OrderMoves
    \/ E_Play \/ E_Return

SpecEngine ==
    EngineInit /\ [][EngineNext]_<<engineVars, mainVars, tableVars>>

\* ------------------------------------------------------------------------
\* Spec: the main program (main.py).  The personalities run in a move
\* finder process, which works on its own copy of the GameState and of the
\* module globals; the main process gets the move through the result
\* channel and nothing else
\* ------------------------------------------------------------------------

\* the answers of ask_bot_settings and of the personality dialogs that a
\* run may give
Setups ==
    {[white_bot |-> FALSE, black_bot |-> FALSE, findBestMove |-> "none",
      findBestMove_white |-> "none", findBestMove_black |-> "none"],
     [white_bot |-> FALSE, black_bot |-> TRUE, findBestMove |-> "prophet",
      findBestMove_white |-> "none", findBestMove_black |-> "none"],
     [white_bot |-> TRUE, black_bot |-> FALSE, findBestMove |-> "gambler",
      findBestMove_white |-> "none", findBestMove_black |-> "none"],
     [white_bot |-> TRUE, black_bot |-> TRUE, findBestMove |-> "none",
      findBestMove_white |-> "tactician", findBestMove_black |-> "prophet"]}

\* the modules the import statements of a setup bring into sys.modules
Imported(s) ==
    {s.findBestMove, s.findBestMove_white, s.findBestMove_black} \ {"none"}

\* the plies a game is followed for
MaxPath == 2

\* get_position_hash(gs) of main.py
get_position_hash(g) ==
    <<Board(g.pos), IF g.pos.wtm THEN "W" ELSE "B",
      IF g.pos.wq THEN "-Q--" ELSE "----", "">>

\* human_turn
human_turn ==
    \/ game.pos.wtm /\ ~setup.white_bot
    \/ ~game.pos.wtm /\ ~setup.black_bot

\* current_bot_func
current_bot_func ==
    IF setup.white_bot /\ setup.black_bot
    THEN (IF game.pos.wtm THEN setup.findBestMove_white
                          ELSE setup.findBestMove_black)
    ELSE setup.findBestMove

\* move_finder_process and return_queue before the first start
NoProc ==
    [alive |-> FALSE, who |-> "none", gs |-> NewGameState(StartPos),
     moves |-> <<>>, mod |-> ModuleState(1, NoKillers(0)), queue |-> <<>>]

NoUndo == [undone |-> <<>>, notified |-> {}]

\* GameState() followed by gs.getValidMoves()
FreshGame == AfterGetValidMoves(NewGameState(StartPos))

Init ==
    /\ setup \in Setups
    /\ sys_modules = Imported(setup)
    /\ modules = [w \in Personalities |-> ImportState(w, 1)]
    /\ game = FreshGame
    /\ valid_moves = ValidMoves(StartPos)
    /\ game_over = FALSE
    /\ ai_thinking = FALSE
    /\ move_undone = FALSE
    /\ position_count = EmptyDict
    /\ proc = NoProc
    /\ calls = <<{}>>
    /\ undo = NoUndo
    /\ EngineIdle
    /\ TableIdle

\* "if move_made:" of the frame in which move was made on the board
AfterMove(move) ==
    /\ game' = AfterGetValidMoves(MakeMove(game, move))
    /\ valid_moves' = ValidMoves(game'.pos)
    /\ position_count' =
          Put(position_count, get_position_hash(game'),
              Get(position_count, get_position_hash(game'), 0) + 1)
    /\ game_over' =
          \/ game_over
          \/ position_count'[get_position_hash(game')] >= 3
          \/ Len(valid_moves') = 0
    /\ move_undone' = FALSE
    /\ calls' = Append(calls, {})
    /\ undo' = NoUndo

\* MOUSEBUTTONDOWN that completes no move (and is on no button)
M_Click ==
    /\ move_undone
    /\ move_undone' = FALSE
    /\ UNCHANGED <<setup, sys_modules, modules, game, valid_moves, game_over,
                   ai_thinking, position_count, proc, calls, undo>>
    /\ UNCHANGED <<engineVars, tableVars>>

\* the second click of the human player on a legal move
M_HumanMove ==
    /\ ~game_over /\ human_turn
    /\ Len(game.log) < MaxPath
    /\ \E i \in 1..Len(valid_moves) : AfterMove(valid_moves[i])
    /\ UNCHANGED <<setup, sys_modules, modules, ai_thinking, proc>>
    /\ UNCHANGED <<engineVars, tableVars>>

\* the turn timer of the human player reaches 0: the suggestion, or a
\* random legal move, is played
M_TimerMove ==
    /\ ~game_over /\ human_turn /\ ~move_undone
    /\ Len(game.log) < MaxPath
    /\ \E i \in 1..Len(valid_moves) : AfterMove(valid_moves[i])
    /\ UNCHANGED <<setup, sys_modules, modules, ai_thinking, proc>>
    /\ UNCHANGED <<engineVars, tableVars>>

\* "if not ai_thinking:" of the AI branch: the move finder process starts
\* with a copy of everything the main process holds
M_StartWorker ==
    /\ ~game_over /\ ~human_turn /\ ~move_undone
    /\ ~ai_thinking
    /\ Len(game.log) < MaxPath
    /\ ai_thinking' = TRUE
    /\ proc' = [alive |-> TRUE, who |-> current_bot_func, gs |-> game,
                moves |-> valid_moves, mod |-> modules[current_bot_func],
                queue |-> <<>>]
    /\ UNCHANGED <<setup, sys_modules, modules, game, valid_moves, game_over,
                   move_undone, position_count, calls, undo>>
    /\ UNCHANGED <<engineVars, tableVars>>

\* the results findBestMove(gs, valid_moves, return_queue) of personality w
\* can have in a process whose module globals are m
Results(w, m, g, moves) ==
    IF w = "gambler"
    THEN {G_finish(sr, moves, TRUE, Shuffled(moves, q), pick) :
             sr \in {G_search(m, g, moves)},
             q \in Shuffles(moves), pick \in 1..3}
    ELSE IF w = "tactician"
    THEN {T_findBestMove(m, g, moves, TRUE, Shuffled(moves, q)) :
             q \in Shuffles(moves)}
    ELSE UNION {{P_finish(sr, moves, TRUE, pick) :
                    pick \in IF sr.best = None THEN 1..Max(1, Len(moves))
                             ELSE {1}} :
                sr \in {P_search(m, g, moves, t.hardAt, t.softAt) :
                           t \in Deadlines}}

\* the move finder process runs findBestMove to its end and exits; its
\* GameState and its module globals end with it
W_Run ==
    /\ proc.alive
    /\ \E r \in Results(proc.who, proc.mod, proc.gs, proc.moves) :
          proc' = [proc EXCEPT !.alive = FALSE, !.queue = r.queue,
                               !.moves = <<>>]
    /\ calls' = [calls EXCEPT ![Len(calls)] = @ \cup {proc.who}]
    /\ UNCHANGED <<setup, sys_modules, modules, game, valid_moves, game_over,
                   ai_thinking, move_undone, position_count, undo>>
    /\ UNCHANGED <<engineVars, tableVars>>

\* "if not move_finder_process.is_alive():" of the AI branch: the move is
\* taken from the channel (a random legal move if it is None) and played
M_TakeMove ==
    /\ ~game_over /\ ~human_turn /\ ~move_undone
    /\ ai_thinking /\ ~proc.alive /\ Len(proc.queue) > 0
    /\ Len(game.log) < MaxPath
    /\ IF proc.queue[1] = None
       THEN \E i \in 1..Len(valid_moves) : AfterMove(valid_moves[i])
       ELSE AfterMove(proc.queue[1])
    /\ ai_thinking' = FALSE
    /\ proc' = NoProc
    /\ UNCHANGED <<setup, sys_modules, modules>>
    /\ UNCHANGED <<engineVars, tableVars>>

\* KEYDOWN K_z
M_Undo ==
    /\ ~game_over
    /\ position_count' =
          IF Len(game.log) > 0
               /\ Get(position_count, get_position_hash(game), 0) > 0
          THEN Put(position_count, get_position_hash(game),
                   position_count[get_position_hash(game)] - 1)
          ELSE position_count
    /\ game' = AfterGetValidMoves(UndoMove(game))
    /\ valid_moves' = ValidMoves(game'.pos)
    /\ modules' =
          IF "prophet" \in sys_modules
          THEN [modules EXCEPT !["prophet"].gameHistory =
                                   notify_undo(@, game')]
          ELSE modules
    /\ undo' = [undone |-> IF Len(game.log) > 0 THEN <<game.pos>> ELSE <<>>,
                notified |-> IF "prophet" \in sys_modules
                             THEN {[who |-> "prophet",
                                    key |-> BoardKey(game'.pos)]}
                             ELSE {}]
    /\ proc' = IF proc.alive THEN NoProc ELSE proc
    /\ ai_thinking' = FALSE
    /\ game_over' = FALSE
    /\ move_undone' = TRUE
    /\ calls' = IF Len(game.log) > 0 THEN SubSeq(calls, 1, Len(calls) - 1)
                ELSE calls
    /\ UNCHANGED <<setup, sys_modules>>
    /\ UNCHANGED <<engineVars, tableVars>>

\* what both resets do to the game
NewGame ==
    /\ game' = FreshGame
    /\ valid_moves' = ValidMoves(StartPos)
    /\ game_over' = FALSE
    /\ position_count' = EmptyDict
    /\ calls' = <<{}>>
    /\ undo' = NoUndo

\* KEYDOWN K_r
M_Reset ==
    /\ NewGame
    /\ proc' = IF proc.alive THEN NoProc ELSE proc
    /\ ai_thinking' = FALSE
    /\ UNCHANGED <<setup, sys_modules, modules, move_undone>>
    /\ UNCHANGED <<engineVars, tableVars>>

\* MOUSEBUTTONDOWN on the start button: the dialogs are asked again and the
\* game is reset; the move finder process and ai_thinking are left as they
\* are.  The dialogs are answered as they were before
M_Restart ==
    /\ \E s \in {setup} :
          /\ setup' = s
          /\ sys_modules' = sys_modules \cup Imported(s)
    /\ NewGame
    /\ move_undone' = FALSE
    /\ UNCHANGED <<modules, ai_thinking, proc>>
    /\ UNCHANGED <<engineVars, tableVars>>

Next ==
    \/ M_Click \/ M_HumanMove \/ M_TimerMove \/ M_StartWorker \/ W_Run
    \/ M_TakeMove \/ M_Undo \/ M_Reset \/ M_Restart

vars == <<mainVars, engineVars, tableVars>>

Spec == Init /\ [][Next]_vars

\* ------------------------------------------------------------------------
\* SpecTable: class TranspositionTable of ai_personality_base.py.  The dict
\* self.table is the sequence of its items in insertion order, which is the
\* order of list(self.table.keys())
\* ------------------------------------------------------------------------

\* the largest max_size a table is built with
MaxSize == 3
\* the position hashes, depths and scores that are stored
Hashes == 1..2
Depths == 0..1
Scores == 0..1

\* the index of key in the items t, 0 if it is not there
IndexOf(t, key) ==
    IF \E i \in 1..Len(t) : t[i].key = key
    THEN CHOOSE i \in 1..Len(t) : t[i].key = key
    ELSE 0

\* "for key in keys_to_remove: del self.table[key]" with
\* keys_to_remove = list(self.table.keys())[:n]
WithoutFirst(t, n) == SubSeq(t, Min(n, Len(t)) + 1, Len(t))

\* self.table[key] = score
SetItem(t, key, score) ==
    IF IndexOf(t, key) > 0
    THEN [t EXCEPT ![IndexOf(t, key)].score = score]
    ELSE Append(t, [key |-> key, score |-> score])

\* TranspositionTable.store
TranspositionTable_store(t, m, position_hash, depth, score) ==
    SetItem(IF Len(t) >= m THEN WithoutFirst(t, m \div 2) ELSE t,
            <<position_hash, depth>>, score)

\* TranspositionTable.get
TranspositionTable_get(t, position_hash, depth) ==
    IF IndexOf(t, <<position_hash, depth>>) > 0
    THEN <<t[IndexOf(t, <<position_hash, depth>>)].score>>
    ELSE <<None>>

\* TranspositionTable.clear
TranspositionTable_clear(t) == <<>>

\* TranspositionTable(max_size)
TableInit ==
    /\ table = <<>>
    /\ max_size \in 1..MaxSize
    /\ got = <<>>
    /\ EngineIdle
    /\ MainIdle

TT_Store ==
    /\ \E h \in Hashes, d \in Depths, sc \in Scores :
          table' = TranspositionTable_store(table, max_size, h, d, sc)
    /\ UNCHANGED <<max_size, got, engineVars, mainVars>>

TT_Get ==
    /\ \E h \in Hashes, d \in Depths :
          got' = TranspositionTable_get(table, h, d)
    /\ UNCHANGED <<table, max_size, engineVars, mainVars>>

TT_Clear ==
    /\ table' = TranspositionTable_clear(table)
    /\ got' = <<>>
    /\ UNCHANGED <<max_size, engineVars, mainVars>>

TableNext == TT_Store \/ TT_Get \/ TT_Clear

SpecTable == TableInit /\ [][TableNext]_vars

\* ------------------------------------------------------------------------
\* Properties
\* ------------------------------------------------------------------------

\* the i-th position of the real game path: the positions left behind, then
\* the position on the board
PathAt(i) == IF i <= Len(game.log) THEN game.log[i] ELSE game.pos

\* C1: for every loaded personality and every position of the real game
\* path, the personality's gameHistory counts the position as often as it
\* occurs on the path with findBestMove of that personality invoked for it
C1_GameHistoryCountsPath ==
    \A w \in sys_modules \cap Personalities :
       \A i \in 1..Len(calls) :
          Get(modules[w].gameHistory, BoardKey(PathAt(i)), 0)
             = Cardinality({j \in 1..Len(calls) :
                              /\ BoardKey(PathAt(j)) = BoardKey(PathAt(i))
                              /\ w \in calls[j]})

\* the value findBestMove hands to its caller: the item on the result
\* channel if it was given one, its return value otherwise
Chosen == IF res.hasQueue /\ Len(res.queue) > 0 THEN res.queue[1] ELSE res.ret

\* C2: in a findBestMove call on a position seen once, the repetition rule
\* scores a node 0 exactly when the node is the third (or a later)
\* occurrence of its key
C2_ZeroExactlyAtThirdOccurrence ==
    (res.op = "findBestMove" /\ Get(res.before, BoardKey(gs.pos), 0) = 0)
       => \A e \in res.repLog : e.zero <=> (e.nth >= 3)

\* C3 (as stated): every negamax call entered with
\* gameHistory[key] + search_history[key] >= 2 returns 0, makes no move and
\* leaves the search-path counters and the three tables as they were
C3_RepetitionAlwaysReturnsZero ==
    \A e \in res.hitLog : ~e.aborted /\ e.score = 0 /\ e.quiet

\* C3 (amended): every such call makes no move and leaves the counters and
\* tables as they were; it returns 0 unless it is a call of Prophet entered
\* after the deadline, which is cancelled
C3_RepetitionBeforeLookup ==
    \A e \in res.hitLog :
       e.quiet /\ (IF e.aborted THEN who = "prophet" ELSE e.score = 0)

\* a repetition call returned 0 although the table held a usable entry for
\* its position
C3_Witness ==
    \E e \in res.hitLog : ~e.aborted /\ e.cached /\ e.score = 0

\* C4: findBestMove called with an empty legal-move list does not raise,
\* returns None and puts None on the result channel it was given
C4_EmptyListSignalsNone ==
    (res.op = "findBestMove" /\ res.moves = <<>>)
       => /\ ~res.raised
          /\ res.ret = None
          /\ res.hasQueue => res.queue = <<None>>

\* a Prophet call whose search was cut off by the deadline
Interrupted ==
    /\ res.op = "findBestMove" /\ who = "prophet" /\ ~res.raised
    /\ Len(res.depthLog) > 0
    /\ ~res.depthLog[Len(res.depthLog)].completed

\* the depths of the call that ran to completion and recorded a best move
RecordedDepths ==
    {i \in 1..Len(res.depthLog) :
        res.depthLog[i].completed /\ res.depthLog[i].root_best # None}

\* C5 (as stated): a call cut off by the deadline stopped at the depth that
\* was cut off and hands over the best move recorded at the depth before
\* it, or a member of the legal-move list if there is no depth before it
C5_MoveOfLastCompletedDepth ==
    Interrupted =>
       /\ \A i \in 1..(Len(res.depthLog) - 1) : res.depthLog[i].completed
       /\ Len(res.depthLog) > 1 =>
             Chosen = res.depthLog[Len(res.depthLog) - 1].root_best
       /\ Len(res.depthLog) = 1 =>
             \E i \in 1..Len(res.moves) : Chosen = res.moves[i]

\* C5 (amended): a call cut off by the deadline stopped at the depth that
\* was cut off and hands over the best move of the last completed depth
\* that recorded one, or a member of the legal-move list if none did
C5_MoveOfLastRecordedDepth ==
    Interrupted =>
       /\ \A i \in 1..(Len(res.depthLog) - 1) : res.depthLog[i].completed
       /\ RecordedDepths # {} =>
             Chosen = res.depthLog[SetMax(RecordedDepths)].root_best
       /\ RecordedDepths = {} =>
             \E i \in 1..Len(res.moves) : Chosen = res.moves[i]

\* a call on a position with several legal moves was cut off after two
\* completed depths that recorded different best moves
C5_Witness ==
    /\ Interrupted
    /\ Len(res.moves) > 1
    /\ \E i, j \in RecordedDepths :
          res.depthLog[i].root_best # res.depthLog[j].root_best

\* C6: the root score of a personality's pruned negamax, called with the
\* full window and empty tables, is the score of plain negamax of the same
\* depth on the same position
C6_PrunedEqualsPlain ==
    (res.op = "negamax" /\ res.fresh /\ ~res.aborted)
       => res.score = res.plain

\* C7: a Prophet call answered from the table returns what the same call
\* returns on an empty table if the entry is exact, no more if the entry
\* is a lower bound, no less if it is an upper bound
C7_TableAnswerConsistent ==
    \A e \in res.ttLog :
       (who = "prophet" /\ e.hasRef /\ e.stored >= e.depth) =>
          /\ e.flag = "exact" => e.score = e.ref
          /\ e.flag = "lower" => e.score <= e.ref
          /\ e.flag = "upper" => e.score >= e.ref

\* C8: a table entry answers a call only if its stored depth is at least
\* the requested depth, and the score of an entry stored by a node that
\* ended in a cutoff is never returned as an exact value
C8_CutoffScoreNeverExact ==
    \A e \in res.ttLog : e.stored >= e.depth /\ (e.cut => ~e.asExact)

\* C9: the table never holds more than max_size entries
C9_TableBounded == Len(table) <= max_size

\* C10: the undo handler has called notify_undo of every loaded personality
\* that keeps a gameHistory with the position whose occurrence it removed
C10_UndoNotifiesEveryPersonality ==
    undo.undone # <<>> =>
       \A w \in sys_modules \cap Personalities :
          [who |-> w, key |-> BoardKey(undo.undone[1])] \in undo.notified

\* C11: a step that changes the game from outside (undo, reset, restart)
\* leaves no move finder process alive and the thinking flag cleared, and
\* a step that plays the move taken from the result channel plays it on the
\* position its move finder process was started on
C11_MoveComputedForItsPosition ==
    [][/\ (M_Undo \/ M_Reset \/ M_Restart) => (~ai_thinking' /\ ~proc'.alive)
       /\ (ai_thinking /\ ~ai_thinking' /\ Len(game'.log) > Len(game.log))
             => proc.gs.pos = game.pos]_vars

\* C12: a findBestMove call that was given a result channel has put
\* exactly one item on it, whether it searched, fell back to a random move
\* or had no legal move
C12_OneItemPerCall ==
    (res.op = "findBestMove" /\ res.hasQueue) => Len(res.queue) = 1

RECURSIVE SeqSum(_, _)
SeqSum(seq, i) == IF i > Len(seq) THEN 0 ELSE seq[i] + SeqSum(seq, i + 1)

\* C13: the candidate list of Gambler's root policy is the search's best
\* move followed by up to two other legal moves without duplicates; the
\* weights are as many as the candidates, sum to 1 (100 hundredths) and
\* the weight of the best move is strictly the largest
C13_CandidatesAndWeights ==
    (res.op = "findBestMove" /\ who = "gambler" /\ res.topMoves # <<>>) =>
       /\ res.topMoves[1] = mod.nextMove
       /\ Len(res.topMoves) \in 1..3
       /\ \A i \in 1..Len(res.topMoves) :
             \E j \in 1..Len(res.moves) : res.topMoves[i] = res.moves[j]
       /\ \A i, j \in 1..Len(res.topMoves) :
             i # j => res.topMoves[i] # res.topMoves[j]
       /\ Len(res.weights) = Len(res.topMoves)
       /\ SeqSum(res.weights, 1) = 100
       /\ \A i \in 2..Len(res.weights) : res.weights[1] > res.weights[i]
       /\ \E i \in 1..Len(res.topMoves) : Chosen = res.topMoves[i]

\* a Gambler call chose among three candidates
C13_Witness ==
    /\ res.op = "findBestMove" /\ who = "gambler"
    /\ Len(res.topMoves) = 3

\* C14: scoreBoard returns -CHECKMATE for white to move and +CHECKMATE for
\* black to move when the checkmate flag is set, and 0 when only the
\* stalemate flag is set, whatever is on the board
C14_TerminalAware ==
    res.op = "scoreBoard" =>
       /\ res.flags[1] =>
             res.score = IF gs.pos.wtm THEN -CHECKMATE ELSE CHECKMATE
       /\ (res.flags[2] /\ ~res.flags[1]) => res.score = 0

\* scoreBoard was called with both flags set on a position that has legal
\* moves and is worth something
C14_Witness ==
    /\ res.op = "scoreBoard" /\ res.flags = <<TRUE, TRUE>>
    /\ Len(ValidMoves(gs.pos)) > 0
    /\ BoardScore(mod.ev, Board(gs.pos)) # 0

\* C15: every recursive call of Prophet's quiescence search is made after a
\* capturing move and so on a board with fewer pieces than its caller's,
\* which bounds the depth of the recursion by the number of pieces; and
\* each makeMove of a call that returns normally is followed by its
\* undoMove, which gives the caller's position back
C15_QuiescenceDescends ==
    \A e \in res.qLog : e.capture /\ e.fewer /\ e.restored

\* a search of Prophet ran to its end and its quiescence search followed a
\* capture
C15_Witness ==
    /\ who = "prophet" /\ res.op = "findBestMove" /\ ~res.raised
    /\ res.qLog # {}
    /\ \A i \in 1..Len(res.depthLog) : res.depthLog[i].completed

C17_PathHistoryRestored ==
    \A e \in res.pathLog : e.same

\* a call whose move loop ended by a cutoff has returned
C17_Witness ==
    /\ \E e \in res.pathLog : e.cut /\ e.same
    /\ \E e \in res.pathLog : ~e.cut /\ e.same

\* C18: when findBestMove returns, the position and the move log of the
\* GameState it was given are as they were when it was called
C18_PositionRestored ==
    (res.op = "findBestMove" /\ ~res.raised) => res.restored

\* C19: a node reads or overwrites a transposition entry only if the entry
\* was stored for the node's full position key (board, side to move,
\* castling rights, en-passant target)
C19_TableKeyedByFullKey ==
    \A e \in res.keyLog : e.same

\* C20: at the start of the search of a findBestMove call of Prophet the
\* history table holds, for every key, at least the weight the module
\* held for it when the call was made
C20_HistoryPersists ==
    [][(who = "prophet" /\ res'.op = "findBestMove" /\ res.op = "none"
           /\ ~res'.raised)
          => \A k \in DOMAIN mod.historyTable :
                Get(res'.histStart, k, 0) >= mod.historyTable[k]]_vars

\* C21: every depth of the killer table holds two slots; a cutoff changes
\* them only if its move is not a capture, and then the move becomes slot 0
\* and the previous slot 0 moves to slot 1, unless the move already is
\* slot 0; no slot ever holds a capturing move and the two slots of a depth
\* never hold the same move
C21_KillerSlots ==
    /\ \A d \in DOMAIN mod.killerMoves :
          /\ Len(mod.killerMoves[d]) = 2
          /\ \A i \in 1..2 : mod.killerMoves[d][i].cap = "--"
          /\ mod.killerMoves[d][1] # None
                => mod.killerMoves[d][1] # mod.killerMoves[d][2]
    /\ \A e \in res.killLog :
          /\ e.after = IF e.move.cap # "--" \/ e.before[1] = e.move
                        THEN e.before
                        ELSE <<e.move, e.before[1]>>
          /\ \A i \in 1..2 : e.after[i].cap = "--"
          /\ e.after[1] # None => e.after[1] # e.after[2]

\* a cutoff by the move in slot 0 has left a full pair of slots as it was,
\* and another cutoff has shifted slot 0 to slot 1
C21_Witness ==
    /\ \E e \in res.killLog :
          e.before[1] = e.move /\ e.before[2] # None /\ e.after = e.before
    /\ \E e \in res.killLog :
          e.before[1] # None /\ e.after = <<e.move, e.before[1]>>

\* the tier of the i-th move of the list order_moves returned
TierAt(i) == P_bucket(mod, res.depth, res.hint, res.ordered[i])

\* the list order_moves returned holds the moves of its input, each as
\* often as the input does
C22_Permutation ==
    /\ Len(res.ordered) = Len(res.moves)
    /\ \A i \in 1..Len(res.moves) :
          Count(res.ordered, res.moves[i]) = Count(res.moves, res.moves[i])

\* the list is arranged by tier, and the winning captures by descending
\* MVV-LVA gain
C22_Tiers ==
    \A i, j \in 1..Len(res.ordered) :
       i < j =>
          /\ TierAt(i) <= TierAt(j)
          /\ (TierAt(i) = 1 /\ TierAt(j) = 1)
                => mvv_lva(res.ordered[i]) >= mvv_lva(res.ordered[j])

\* C22: order_moves returns a permutation of its input arranged in tier
\* order (hint, winning captures by descending gain, equal captures,
\* killers, history moves by descending weight, centre moves, other quiet
\* moves, losing captures)
C22_OrderedByTierAndWeight ==
    res.op = "order_moves" =>
       /\ C22_Permutation
       /\ C22_Tiers
       /\ \A i, j \in 1..Len(res.ordered) :
             (i < j /\ TierAt(i) = 4 /\ TierAt(j) = 4)
                => mod.historyTable[HKey(res.ordered[i])]
                     >= mod.historyTable[HKey(res.ordered[j])]

\* what holds of the list: a permutation in tier order, the history moves
\* in the order of the input
C22_OrderedByTier ==
    res.op = "order_moves" => (C22_Permutation /\ C22_Tiers)

\* C23: a quiescence call entered with alpha < beta that returns normally
\* returns beta without making a move if the stand-pat value is at least
\* beta; otherwise it makes only captures, in descending MVV-LVA order,
\* each searched with the window (-beta, -alpha) of the alpha raised so
\* far, returns beta when a child's score reaches beta, and in every case
\* returns a value between the alpha and the beta it was called with
C23_QuiescenceFailHard ==
    /\ \A c \in res.qCalls :
          c.alpha < c.beta =>
             /\ c.stand_pat >= c.beta => (c.score = c.beta /\ c.made = 0)
             /\ c.cutoff => c.score = c.beta
             /\ c.alpha <= c.score /\ c.score <= c.beta
             /\ c.score >= Min(c.stand_pat, c.beta)
    /\ \A e \in res.qSteps :
          /\ e.capture /\ e.inOrder
          /\ e.child_alpha = -e.beta /\ e.child_beta = -e.alpha

\* a quiescence call stood pat below beta, raised alpha, searched a
\* capture and returned inside its window; another one failed high on a
\* capture
C23_Witness ==
    /\ \E c \in res.qCalls :
          /\ c.alpha < c.stand_pat /\ c.stand_pat < c.beta /\ c.made > 0
          /\ c.score < c.beta
    /\ \E c \in res.qCalls : c.alpha < c.beta /\ c.cutoff

\* the depths searched before the j-th one of the call that have its parity
SameParityBefore(j) ==
    {i \in 1..(j - 1) : res.depthLog[i].d % 2 = res.depthLog[j].d % 2}

\* C24: the window a depth of Prophet's iterative deepening starts with is
\* the full window if d <= 2, if no depth of the same parity has completed
\* or if the score p of the most recent completed depth of that parity is
\* at least 0.9 * CHECKMATE in absolute value; otherwise it is
\* [p - delta, p + delta], delta being 0.75 if the stable-depth counter is
\* at least 2 and 1.5 otherwise
C24_WindowFromSameParity ==
    \A j \in 1..Len(res.depthLog) :
       \E e \in {res.depthLog[j]} :
          IF \/ e.d <= 2
             \/ SameParityBefore(j) = {}
             \/ Abs(res.depthLog[SetMax(SameParityBefore(j))].root_score)
                   >= (9 * CHECKMATE) \div 10
          THEN e.alpha = -CHECKMATE /\ e.beta = CHECKMATE
          ELSE \E delta \in {IF e.stable >= 2 THEN (3 * Unit) \div 4
                                              ELSE (3 * Unit) \div 2} :
               \E p \in {res.depthLog[SetMax(SameParityBefore(j))].root_score} :
                  e.alpha = p - delta /\ e.beta = p + delta

\* a call searched a depth with a window around the score of the depth two
\* below it, which differs from the score of the depth before it, and a
\* depth with the tight delta
C24_Witness ==
    /\ \E j \in 3..Len(res.depthLog) :
          /\ res.depthLog[j].beta - res.depthLog[j].alpha = 3 * Unit
          /\ res.depthLog[j - 1].root_score # res.depthLog[j - 2].root_score
    /\ \E j \in 1..Len(res.depthLog) :
          res.depthLog[j].beta - res.depthLog[j].alpha = (3 * Unit) \div 2

\* delta of the depth whose record is e
DeltaOf(e) == IF e.stable >= 2 THEN (3 * Unit) \div 4 ELSE (3 * Unit) \div 2

\* the k-th pass of the depth whose record is e failed and is followed by
\* another pass
FailedLow(e, k) == k < Len(e.passes) /\ e.passes[k].root_score <= e.passes[k].alpha

FailedHigh(e, k) == k < Len(e.passes) /\ e.passes[k].root_score >= e.passes[k].beta

\* C25: when a windowed root search fails low or high, and the score is not
\* near mate, the same depth is searched again with a window that contains
\* the failed one: the failing side moved out by delta * 2^min(k,4) at the
\* k-th widening, the other side where it was; the passes end with a root
\* score strictly inside the window used
C25_WidenedWindowContainsFailed ==
    \A j \in 1..Len(res.depthLog) :
       \E e \in {res.depthLog[j]} :
          /\ \A k \in 1..(Len(e.passes) - 1) :
                /\ FailedLow(e, k) \/ FailedHigh(e, k)
                /\ FailedLow(e, k) =>
                      /\ e.passes[k + 1].alpha
                            = e.passes[k].alpha - DeltaOf(e) * (2 ^ Min(k, 4))
                      /\ e.passes[k + 1].beta = e.passes[k].beta
                /\ ~FailedLow(e, k) =>
                      /\ e.passes[k + 1].beta
                            = e.passes[k].beta + DeltaOf(e) * (2 ^ Min(k, 4))
                      /\ e.passes[k + 1].alpha = e.passes[k].alpha
          /\ (e.completed /\ e.beta - e.alpha < 2 * CHECKMATE
                /\ Abs(e.root_score) < (9 * CHECKMATE) \div 10) =>
                /\ e.passes[Len(e.passes)].alpha < e.root_score
                /\ e.root_score < e.passes[Len(e.passes)].beta

\* what holds of the windows: a failed pass is followed by one whose failing
\* side moved out by delta * 2^min(k,4); after a fail low the upper bound
\* stays, after a fail high the lower bound is the root score of the failed
\* pass; the passes end with a root score strictly inside the window used,
\* or near mate
C25_WidenedFailingSide ==
    \A j \in 1..Len(res.depthLog) :
       \E e \in {res.depthLog[j]} :
          /\ \A k \in 1..(Len(e.passes) - 1) :
                /\ FailedLow(e, k) \/ FailedHigh(e, k)
                /\ FailedLow(e, k) =>
                      /\ e.passes[k + 1].alpha
                            = e.passes[k].alpha - DeltaOf(e) * (2 ^ Min(k, 4))
                      /\ e.passes[k + 1].beta = e.passes[k].beta
                /\ ~FailedLow(e, k) =>
                      /\ e.passes[k + 1].beta
                            = e.passes[k].beta + DeltaOf(e) * (2 ^ Min(k, 4))
                      /\ e.passes[k + 1].alpha = e.passes[k].root_score
          /\ (e.completed /\ e.beta - e.alpha < 2 * CHECKMATE
                /\ Abs(e.root_score) < (9 * CHECKMATE) \div 10) =>
                /\ e.passes[Len(e.passes)].alpha < e.root_score
                /\ e.root_score < e.passes[Len(e.passes)].beta

\* C26: the raw score Fortress records for a root move is the move's
\* full-depth score: the negated value of a depth F_DEPTH - 1 negamax of the
\* position after the move with the full window and an empty table,
\* whatever the order of the root moves and the scores of the moves
\* searched before it
C26_RawIsFullDepthScore ==
    (who = "fortress" /\ res.op = "findBestMove") =>
       \A i \in 1..Len(res.rootLog) :
          res.rootLog[i].raw = res.rootLog[i].full

\* C27: Fortress returns a root move whose adjusted score is maximal among
\* the root moves, the adjusted score being raw - 0.3 * |raw - shallow|,
\* minus 0.3 for a non-capturing queen or rook move that ends in the three
\* ranks farthest from the mover's side, plus 0.25 if the mover's material
\* balance exceeds 1.0 and the move captures a piece worth at least the
\* moving piece; of the moves with the maximal adjusted score it returns
\* the one that comes first in the order the root moves are searched in
\* (scores in tenths of the model's unit)
C27_MaximalAdjustedFirst ==
    (who = "fortress" /\ res.op = "findBestMove" /\ ~res.raised) =>
       \E i \in 1..Len(res.rootLog) :
          /\ Chosen = res.rootLog[i].move
          /\ \A j \in 1..Len(res.rootLog) :
                /\ res.rootLog[j].adj <= res.rootLog[i].adj
                /\ j < i => res.rootLog[j].adj < res.rootLog[i].adj
                /\ \E m \in {res.rootLog[j].move} :
                      res.rootLog[j].adj =
                         10 * res.rootLog[j].raw
                         - 3 * Abs(res.rootLog[j].raw - res.rootLog[j].shallow)
                         - (IF /\ m.piece \in {"wR", "bR", "wQ", "bQ"}
                               /\ m.cap = "--"
                               /\ m.end \in (IF gs.pos.wtm
                                             THEN {"a7", "e7", "g8", "e8", "f6"}
                                             ELSE {"a1", "c3"})
                            THEN 3 * Unit ELSE 0)
                         + (IF /\ F_material_balance(
                                     gs.pos, IF gs.pos.wtm THEN "w" ELSE "b")
                                     > Unit
                               /\ m.cap # "--"
                               /\ PieceScore(Kind(m.cap))
                                     >= PieceScore(Kind(m.piece))
                            THEN (10 * Unit) \div 4 ELSE 0)

\* a call in which two root moves have the maximal adjusted score, one of
\* them an over-extending rook move
C27_Witness ==
    /\ who = "fortress" /\ res.op = "findBestMove" /\ ~res.raised
    /\ \E i, j \in 1..Len(res.rootLog) :
          /\ i < j
          /\ Chosen = res.rootLog[i].move
          /\ res.rootLog[i].adj = res.rootLog[j].adj
          /\ \E k \in {i, j} :
                /\ res.rootLog[k].move.piece = "wR"
                /\ res.rootLog[k].move.end = "a7"

\* a negamax call with remaining depth > 0 on a position whose side to move
\* has no legal move, not ended by the repetition rule or the deadline
TerminalNode ==
    /\ res.op = "negamax" /\ res.depth > 0 /\ res.moves = <<>>
    /\ ~res.aborted
    /\ Get(res.before, BoardKey(gs.pos), 0) = 0

\* C28: a node with remaining depth > 0 whose side to move has no legal
\* move is scored by its terminal kind, 0 for stalemate and -CHECKMATE
\* (for the side to move) only for checkmate, which is the score
\* turn * scoreBoard gives the position at depth 0
C28_TerminalScoredByKind ==
    TerminalNode =>
       /\ res.score = IF gs.checkmate THEN -CHECKMATE ELSE STALEMATE
       /\ res.score = res.leaf

\* what the search does: a node with remaining depth > 0 and no legal move
\* is scored -CHECKMATE, stalemate or checkmate
C28_TerminalScoredAsMate ==
    TerminalNode => res.score = -CHECKMATE

\* the personality has searched a stalemate position with depth > 0
C28_Stalemate ==
    TerminalNode /\ gs.stalemate /\ ~gs.checkmate

\* Tactician's scoreBoard was called on a position that is neither
\* checkmate nor stalemate and whose side to move is in check
ScoredInCheck ==
    /\ who = "tactician" /\ res.op = "scoreBoard"
    /\ res.flags = <<FALSE, FALSE>>
    /\ Len(ValidMoves(gs.pos)) > 0
    /\ InCheck(gs.pos)

\* C30: when the side to move is in check, Tactician's scoreBoard credits
\* the 0.5 check bonus to the side that delivered the check: against the
\* score of the same board without check, the white-perspective score is
\* 0.5 higher when black is to move and 0.5 lower when white is to move
C30_BonusToCheckingSide ==
    ScoredInCheck =>
       res.score = BoardScore(mod.ev, Board(gs.pos))
                   + (IF gs.pos.wtm THEN 0 - (Unit \div 2) ELSE Unit \div 2)

\* what scoreBoard does: the bonus goes to the side to move, the side that
\* is in check
C30_BonusToCheckedSide ==
    ScoredInCheck =>
       res.score = BoardScore(mod.ev, Board(gs.pos))
                   + (IF gs.pos.wtm THEN Unit \div 2 ELSE 0 - (Unit \div 2))

\* C29: for every personality and every non-empty legal-move list, the move
\* findBestMove returns, or puts on the result channel, is an element of
\* the list it was given, on every path: search result, random fallback
\* and sampled alternative
C29_ReturnsMoveOfTheList ==
    (res.op = "findBestMove" /\ res.moves # <<>>) =>
       /\ ~res.raised
       /\ \E i \in 1..Len(res.moves) : Chosen = res.moves[i]

\* a call on a non-empty list ended with the random fallback
C29_Witness ==
    /\ res.op = "findBestMove" /\ res.moves # <<>>
    /\ res.fallback
    /\ \E i \in 1..Len(res.moves) : Chosen = res.moves[i]

====
